---- MODULE Spec2Model ----
(***************************************************************************)
(* Model of the vault store of my-second-brain:                            *)
(*   backend/app/core/vault_manager.py  (VaultManager)                     *)
(*                                                                         *)
(* A string is a sequence of one-character strings.  A file name is a      *)
(* string, an absolute path is the sequence of its components below "/",   *)
(* and the argument `relative_path` is the pair (absolute?, components)    *)
(* that pathlib parses it into.  The stored text of a file is a sequence   *)
(* of tokens: one token for a whole leading metadata block, one per body   *)
(* character, one for a byte that is not UTF-8.  The file's modification   *)
(* time (Note.modified) is not modelled.                                   *)
(***************************************************************************)
EXTENDS Naturals, Sequences, FiniteSets, TLC

VARIABLES files, dirs, calls

vars == <<files, dirs, calls>>

\* ------------------------------------------------------------------ bounds

\* The vault (and what the sibling hole reaches) holds at most MaxFiles files.
MaxFiles == 3

\* A text handed to the link extractors is made of at most MaxPieces pieces.
MaxPieces == 5

\* search_notes is called with max_results from 0 to MaxResults.
MaxResults == 2

\* Search terms handed to _extract_excerpts in one call.
MaxTerms == 4

\* ----------------------------------------------------------------- strings

\* ord(c) of the characters that occur in paths (sorted() compares code points).
Ord(c) ==
    CASE c = "\n" -> 10
      [] c = " " -> 32
      [] c = "." -> 46
      [] c = "/" -> 47
      [] c = "2" -> 50
      [] c = "N" -> 78
      [] c = "T" -> 84
      [] c = "a" -> 97
      [] c = "c" -> 99
      [] c = "d" -> 100
      [] c = "e" -> 101
      [] c = "h" -> 104
      [] c = "m" -> 109
      [] c = "n" -> 110
      [] c = "t" -> 116
      [] c = "v" -> 118
      [] c = "x" -> 120
      [] c = "y" -> 121

\* str.startswith
StartsWith(s, prefix) ==
    /\ Len(prefix) <= Len(s)
    /\ SubSeq(s, 1, Len(prefix)) = prefix

\* str.endswith
EndsWith(s, suffix) ==
    /\ Len(suffix) <= Len(s)
    /\ SubSeq(s, Len(s) - Len(suffix) + 1, Len(s)) = suffix

\* s < t for Python strings: code-point lexicographic order.
StrLess(s, t) ==
    \E i \in 1..(Len(t)) :
        /\ i <= Len(s) + 1
        /\ SubSeq(s, 1, i - 1) = SubSeq(t, 1, i - 1)
        /\ \/ i = Len(s) + 1
           \/ Ord(s[i]) < Ord(t[i])

IsSpace(c) == c \in {" ", "\n"}

\* str.lower() on the letters that occur.
Lower(c) ==
    CASE c = "A" -> "a"
      [] c = "B" -> "b"
      [] c = "C" -> "c"
      [] c = "D" -> "d"
      [] c = "H" -> "h"
      [] c = "M" -> "m"
      [] c = "N" -> "n"
      [] c = "T" -> "t"
      [] c = "X" -> "x"
      [] c = "Y" -> "y"
      [] OTHER -> c

LowerStr(s) == [i \in 1..Len(s) |-> Lower(s[i])]

RECURSIVE LStrip(_)
LStrip(s) == IF s # <<>> /\ IsSpace(Head(s)) THEN LStrip(Tail(s)) ELSE s

RECURSIVE RStrip(_)
RStrip(s) == IF s # <<>> /\ IsSpace(s[Len(s)]) THEN RStrip(SubSeq(s, 1, Len(s) - 1)) ELSE s

\* str.strip()
Strip(s) == LStrip(RStrip(s))

\* `term in text`: term is a substring of text.
Contains(text, term) ==
    \E i \in 1..(Len(text) + 1) :
        /\ i + Len(term) - 1 <= Len(text)
        /\ SubSeq(text, i, i + Len(term) - 1) = term

\* str.split(): the maximal runs of characters that are no whitespace.
RECURSIVE SplitFrom(_, _, _)
SplitFrom(s, word, acc) ==
    IF s = <<>> THEN (IF word = <<>> THEN acc ELSE Append(acc, word))
    ELSE IF IsSpace(Head(s))
         THEN SplitFrom(Tail(s), <<>>, IF word = <<>> THEN acc ELSE Append(acc, word))
         ELSE SplitFrom(Tail(s), Append(word, Head(s)), acc)

Split(s) == SplitFrom(s, <<>>, <<>>)

\* ------------------------------------------------------------------- paths

nV   == <<"v">>
nV2  == <<"v", "2">>
nA   == <<"a">>
nMd  == <<"n", ".", "m", "d">>
nHid == <<".", "h", ".", "m", "d">>
nUp  == <<".", ".">>
nDot == <<".">>

\* self.vault_path: the resolved vault root, /v.  /v2 is a sibling directory name.
VaultPath == <<nV>>

Rel(segs) == [abs |-> FALSE, segs |-> segs]
Abs(segs) == [abs |-> TRUE, segs |-> segs]

\* str(path) of an absolute path.
RECURSIVE PathStr(_)
PathStr(p) ==
    IF p = <<>> THEN <<"/">>
    ELSE IF Len(p) = 1 THEN <<"/">> \o p[1]
    ELSE PathStr(SubSeq(p, 1, Len(p) - 1)) \o <<"/">> \o p[Len(p)]

\* str(path) of a relative path ("" is printed "." by pathlib).
RECURSIVE RelStr(_)
RelStr(p) ==
    IF p = <<>> THEN <<".">>
    ELSE IF Len(p) = 1 THEN p[1]
    ELSE RelStr(SubSeq(p, 1, Len(p) - 1)) \o <<"/">> \o p[Len(p)]

\* vault_path / relative_path: an absolute right operand replaces the left.
Join(base, rp) == IF rp.abs THEN rp.segs ELSE base \o rp.segs

\* Path.resolve() without symbolic links: "." is dropped, ".." pops ("/.." = "/").
RECURSIVE ResolveFrom(_, _)
ResolveFrom(acc, segs) ==
    IF segs = <<>> THEN acc
    ELSE LET s == Head(segs) IN
         IF s = nDot THEN ResolveFrom(acc, Tail(segs))
         ELSE IF s = nUp
              THEN ResolveFrom(IF acc = <<>> THEN acc ELSE SubSeq(acc, 1, Len(acc) - 1),
                               Tail(segs))
              ELSE ResolveFrom(Append(acc, s), Tail(segs))

Resolve(segs) == ResolveFrom(<<>>, segs)

\* Component-wise containment: p is base or lies below it.
IsUnder(p, base) ==
    /\ Len(base) <= Len(p)
    /\ SubSeq(p, 1, Len(base)) = base

Parent(p) == IF p = <<>> THEN p ELSE SubSeq(p, 1, Len(p) - 1)

Name(p) == IF p = <<>> THEN <<>> ELSE p[Len(p)]

\* Path.stem: the name without its last suffix (a leading dot starts no suffix).
Stem(name) ==
    LET dots == {i \in 2..Len(name) : name[i] = "."} IN
    IF dots = {} \/ name[Len(name)] = "." THEN name
    ELSE LET last == CHOOSE i \in dots : \A j \in dots : j <= i
         IN  SubSeq(name, 1, last - 1)

\* _validate_path: the resolved absolute path, or the ValueError.
Traversal == [ok |-> FALSE]

ValidatePath(rp) ==
    LET absolute == Resolve(Join(VaultPath, rp)) IN
    IF ~ StartsWith(PathStr(absolute), PathStr(VaultPath)) THEN Traversal
    ELSE [ok |-> TRUE, path |-> absolute]

\* _to_relative: Path.relative_to(vault_path); ValueError outside the vault.
ToRelative(p) ==
    IF IsUnder(p, VaultPath)
    THEN [ok |-> TRUE, rel |-> SubSeq(p, Len(VaultPath) + 1, Len(p))]
    ELSE [ok |-> FALSE]

\* ------------------------------------------------------------------- codec

\* Tokens of a stored text.
FmTok(meta) == [t |-> "fm", meta |-> meta]
BadFmTok == [t |-> "badfm"]
BadByte == [t |-> "byte"]
Ch(c) == [t |-> "ch", c |-> c]

Text(chars) == [i \in 1..Len(chars) |-> Ch(chars[i])]

IsSpaceTok(tok) == tok.t = "ch" /\ IsSpace(tok.c)

RECURSIVE TokLStrip(_)
TokLStrip(s) == IF s # <<>> /\ IsSpaceTok(Head(s)) THEN TokLStrip(Tail(s)) ELSE s

RECURSIVE TokRStrip(_)
TokRStrip(s) ==
    IF s # <<>> /\ IsSpaceTok(s[Len(s)]) THEN TokRStrip(SubSeq(s, 1, Len(s) - 1)) ELSE s

TokStrip(s) == TokLStrip(TokRStrip(s))

\* The characters of body tokens (a metadata delimiter inside a body is text).
Chars(toks) == [i \in 1..Len(toks) |-> IF toks[i].t = "ch" THEN toks[i].c ELSE "-"]

\* Metadata values: None, a string, a list of strings.
NoneV == [kind |-> "none"]
StrV(s) == [kind |-> "str", v |-> s]
ListV(l) == [kind |-> "list", v |-> l]

EmptyMeta == [k \in {} |-> NoneV]

\* dict.get(key, default)
Get(meta, key, default) == IF key \in DOMAIN meta THEN meta[key] ELSE default

\* Python truthiness of a metadata value.
Truthy(v) == v.kind # "none" /\ v.v # <<>>

KnownKeys == {"tags", "aliases", "created", "modified", "title"}

\* frontmatter.Post(content, **metadata): `content` and `handler` are parameters
\* of Post.__init__, so a metadata key of that name is no metadata (TypeError for
\* the doubly given `content`).
PostCollides(metadata) == "content" \in DOMAIN metadata

\* frontmatter.dumps(post): "---\n<yaml>\n---\n\n<content>\n", stripped.
Dumps(content, metadata) ==
    TokStrip(<<FmTok(metadata)>> \o Text(content) \o <<Ch("\n")>>)

\* frontmatter.loads(text): strip, split off a leading metadata block, strip the body.
Loads(raw) ==
    LET text == TokStrip(raw) IN
    IF text # <<>> /\ text[1].t = "badfm" THEN [ok |-> FALSE]
    ELSE IF text # <<>> /\ text[1].t = "fm"
         THEN [ok |-> TRUE, metadata |-> text[1].meta,
               content |-> Chars(TokStrip(Tail(text)))]
         ELSE [ok |-> TRUE, metadata |-> EmptyMeta, content |-> Chars(text)]

\* f.read() with encoding="utf-8" raises UnicodeDecodeError on such a text.
Undecodable(raw) == \E i \in 1..Len(raw) : raw[i].t = "byte"

\* NoteMeta(...) built in read_note from post.metadata.
NoteMeta(metadata) ==
    [tags     |-> Get(metadata, "tags", ListV(<<>>)),
     aliases  |-> Get(metadata, "aliases", ListV(<<>>)),
     created  |-> Get(metadata, "created", NoneV),
     modified |-> Get(metadata, "modified", NoneV),
     title    |-> Get(metadata, "title", NoneV),
     extra    |-> [k \in DOMAIN metadata \ KnownKeys |-> metadata[k]]]

\* Note(path=relative_path, title=meta.title or abs_path.stem, content=post.content, ...)
Note(rp, absPath, post) ==
    LET meta == NoteMeta(post.metadata) IN
    [path        |-> rp,
     title       |-> IF Truthy(meta.title) THEN meta.title.v ELSE Stem(Name(absPath)),
     content     |-> post.content,
     frontmatter |-> meta]

\* ----------------------------------------------------------------- storage

IsFile(p) == p \in DOMAIN files
IsDir(p) == p \in dirs
Exists(p) == IsFile(p) \/ IsDir(p)

\* p and every directory above it.
Ancestors(p) == {SubSeq(p, 1, i) : i \in 0..Len(p)}

\* Path.mkdir(parents=True, exist_ok=True) succeeds unless a component is a file.
MkdirOk(d) == \A a \in Ancestors(d) : ~ IsFile(a)

\* A write that leaves its file alone in the storage.
PutFileAlone(fs, p, raw) == [q \in {p} |-> raw]

PutFile(fs, p, raw) == [q \in DOMAIN fs \cup {p} |-> IF q = p THEN raw ELSE fs[q]]
\* An unlink that removes nothing.
RemoveFileKeeps(fs, p) == fs

RemoveFile(fs, p) == [q \in DOMAIN fs \ {p} |-> fs[q]]

\* A write at offset 0 of a file opened with "w": what lies beyond it stays.
Overlay(new, old) == new \o SubSeq(old, Len(new) + 1, Len(old))

\* ----------------------------------------------------------------- results

Pending == [kind |-> "pending"]
NoneR == [kind |-> "none"]
NoteR(n) == [kind |-> "note", note |-> n]
BoolR(b) == [kind |-> "bool", val |-> b]
ListR(l) == [kind |-> "list", paths |-> l]
NotesR(ns) == [kind |-> "notes", notes |-> ns]
Err(e) == [kind |-> "error", err |-> e]
LinksR(l) == [kind |-> "links", links |-> l]
NamesR(l) == [kind |-> "names", names |-> l]
EntriesR(l) == [kind |-> "entries", entries |-> l]
GraphR(g) == [kind |-> "graph", graph |-> g]
ResultsR(l) == [kind |-> "results", results |-> l]

\* ------------------------------------------------------------- list_notes

mdSuffix == <<".", "m", "d">>

\* search_path.rglob("*.md"): every entry below search_path, file or directory,
\* whose name ends in ".md".
Rglob(searchPath) ==
    {p \in (DOMAIN files) \cup dirs :
        /\ IsUnder(p, searchPath)
        /\ p # searchPath
        /\ EndsWith(Name(p), mdSuffix)}

RECURSIVE SortedPaths(_)
SortedPaths(S) ==
    IF S = {} THEN <<>>
    ELSE LET m == CHOOSE x \in S : \A y \in S : x = y \/ StrLess(RelStr(x), RelStr(y))
         IN  <<m>> \o SortedPaths(S \ {m})

\* list_notes(folder): the sorted vault-relative paths, or the error raised.
ListNotes(folder) ==
    LET v == IF folder # Rel(<<>>) THEN ValidatePath(folder)
             ELSE [ok |-> TRUE, path |-> VaultPath]
    IN
    IF ~ v.ok THEN Err("PathTraversal")
    ELSE LET found == {p \in Rglob(v.path) : ~ StartsWith(Name(p), <<".">>)} IN
         IF \E p \in found : ~ ToRelative(p).ok THEN Err("ValueError")
         ELSE ListR(SortedPaths({ToRelative(p).rel : p \in found}))

\* -------------------------------------------------------------- read_note

\* read_note without line 118: the ValueError of the path guard is logged and
\* becomes None like any other exception.
ReadCheckSwallows(rp) ==
    LET v == ValidatePath(rp) IN
    IF ~ v.ok THEN NoneR
    ELSE IF ~ IsFile(v.path) THEN NoneR
    ELSE Pending

\* read_note without lines 89-90 and with the OSError of open() let through.
ReadCheckRaises(rp) ==
    LET v == ValidatePath(rp) IN
    IF ~ v.ok THEN Err("PathTraversal")
    ELSE IF ~ IsFile(v.path) THEN Err("OSError")
    ELSE Pending

\* Lines 88-90: validation, then the existence and is_file checks.
ReadCheck(rp) ==
    LET v == ValidatePath(rp) IN
    IF ~ v.ok THEN Err("PathTraversal")
    ELSE IF ~ IsFile(v.path) THEN NoneR
    ELSE Pending

\* Lines 92-93: open and read; an OSError is logged and becomes None, a
\* UnicodeDecodeError is a ValueError and is re-raised by line 118.
ReadOpen(absPath) ==
    IF ~ IsFile(absPath) THEN NoneR
    ELSE IF Undecodable(files[absPath]) THEN Err("UnicodeDecodeError")
    ELSE Pending

\* Lines 96-116: parse and build the Note; a YAML error or a failed stat() is
\* logged and becomes None.
ReadParse(rp, absPath, buf) ==
    LET post == Loads(buf) IN
    IF ~ post.ok THEN NoneR
    ELSE IF ~ Exists(absPath) THEN NoneR
    ELSE NoteR(Note(rp, absPath, post))

\* read_note run without interruption on the current storage.
ReadNote(rp) ==
    LET chk == ReadCheck(rp) IN
    IF chk # Pending THEN chk
    ELSE LET absPath == ValidatePath(rp).path
             opened == ReadOpen(absPath)
         IN  IF opened # Pending THEN opened
             ELSE ReadParse(rp, absPath, files[absPath])

\* _iter_notes: list_notes(), then read_note on each path, skipping None; the
\* first exception ends the iteration.
RECURSIVE IterFrom(_, _)
IterFrom(paths, acc) ==
    IF paths = <<>> THEN NotesR(acc)
    ELSE LET r == ReadNote(Rel(Head(paths))) IN
         IF r.kind = "error" THEN r
         ELSE IF r.kind = "none" THEN IterFrom(Tail(paths), acc)
         ELSE IterFrom(Tail(paths), Append(acc, r.note))

IterNotes ==
    LET l == ListNotes(Rel(<<>>)) IN
    IF l.kind = "error" THEN l ELSE IterFrom(l.paths, <<>>)

\* ------------------------------------------------------------------- links

\* The last index of the longest run, from index i, of characters outside excl
\* (a greedy negated class; i - 1 when the run is empty).
RECURSIVE RunEnd(_, _, _)
RunEnd(s, i, excl) ==
    IF i <= Len(s) /\ s[i] \notin excl THEN RunEnd(s, i + 1, excl) ELSE i - 1

At(s, i, c) == i <= Len(s) /\ s[i] = c

NoMatch == [ok |-> FALSE]

\* re.compile(r"\[\[([^\]|#]+)(?:#([^\]|]+))?(?:\|([^\]]+))?\]\]") matched at index i.
\* Each class excludes what may follow it, so only the longest runs can match.
WIKILINK_PATTERN(s, i) ==
    IF ~ (At(s, i, "[") /\ At(s, i + 1, "[")) THEN NoMatch
    ELSE LET t == RunEnd(s, i + 2, {"]", "|", "#"}) IN
         IF t < i + 2 THEN NoMatch
         ELSE LET hasH == At(s, t + 1, "#")
                  h == IF hasH THEN RunEnd(s, t + 2, {"]", "|"}) ELSE t
              IN
              IF hasH /\ h < t + 2 THEN NoMatch
              ELSE LET hasA == At(s, h + 1, "|")
                       a == IF hasA THEN RunEnd(s, h + 2, {"]"}) ELSE h
                   IN
                   IF hasA /\ a < h + 2 THEN NoMatch
                   ELSE IF ~ (At(s, a + 1, "]") /\ At(s, a + 2, "]")) THEN NoMatch
                   ELSE [ok |-> TRUE, start |-> i, end |-> a + 2,
                         group0 |-> SubSeq(s, i, a + 2),
                         group1 |-> SubSeq(s, i + 2, t),
                         group2 |-> IF hasH THEN StrV(SubSeq(s, t + 2, h)) ELSE NoneV,
                         group3 |-> IF hasA THEN StrV(SubSeq(s, h + 2, a)) ELSE NoneV]

\* Pattern.finditer: the leftmost match, then the scan goes on behind it.
RECURSIVE FindIter(_, _)
FindIter(s, i) ==
    IF i > Len(s) THEN <<>>
    ELSE LET m == WIKILINK_PATTERN(s, i) IN
         IF m.ok THEN <<m>> \o FindIter(s, m.end + 1) ELSE FindIter(s, i + 1)

\* Wikilink(...) with the groups kept as matched.
WikilinkUntrimmed(m) ==
    [raw |-> m.group0, target |-> m.group1, heading |-> m.group2, alias |-> m.group3]

\* Wikilink(raw, target.strip(), heading.strip() if heading else None,
\*          alias.strip() if alias else None)
Wikilink(m) ==
    [raw     |-> m.group0,
     target  |-> Strip(m.group1),
     heading |-> IF Truthy(m.group2) THEN StrV(Strip(m.group2.v)) ELSE NoneV,
     alias   |-> IF Truthy(m.group3) THEN StrV(Strip(m.group3.v)) ELSE NoneV]

\* VaultManager.extract_wikilinks(content)
ExtractWikilinks(content) ==
    LET ms == FindIter(content, 1) IN [k \in 1..Len(ms) |-> Wikilink(ms[k])]

\* BacklinkResolver.wikilink_pattern,
\* re.compile(r'\[\[([^\]|#]+)(?:#[^\]|]+)?(?:\|[^\]]+)?\]\]'), matched at index i.
wikilink_pattern(s, i) ==
    IF ~ (At(s, i, "[") /\ At(s, i + 1, "[")) THEN NoMatch
    ELSE LET t == RunEnd(s, i + 2, {"]", "|", "#"})
             h == IF At(s, t + 1, "#") THEN RunEnd(s, t + 2, {"]", "|"}) ELSE t
             a == IF At(s, h + 1, "|") THEN RunEnd(s, h + 2, {"]"}) ELSE h
         IN
         IF /\ t >= i + 2
            /\ At(s, t + 1, "#") => h >= t + 2
            /\ At(s, h + 1, "|") => a >= h + 2
            /\ At(s, a + 1, "]")
            /\ At(s, a + 2, "]")
         THEN [ok |-> TRUE, end |-> a + 2, group1 |-> SubSeq(s, i + 2, t)]
         ELSE NoMatch

\* Pattern.findall with one group: the group-1 text of every match, in order.
RECURSIVE FindAll(_, _)
FindAll(s, i) ==
    IF i > Len(s) THEN <<>>
    ELSE LET m == wikilink_pattern(s, i) IN
         IF m.ok THEN <<m.group1>> \o FindAll(s, m.end + 1) ELSE FindAll(s, i + 1)

\* BacklinkResolver.extract_wikilinks(content)
ResolverExtractWikilinksUnordered(content) ==
    LET matches == FindAll(content, 1) IN
    [k \in 1..Len(matches) |-> Strip(matches[Len(matches) + 1 - k])]

ResolverExtractWikilinks(content) ==
    LET matches == FindAll(content, 1) IN
    [k \in 1..Len(matches) |-> Strip(matches[k])]

\* -------------------------------------------------------------- link graph

\* {"name": ..., "path": ...}
Entry(name, path) == [name |-> name, path |-> path]

\* Lines 300-308: the entry of a note that holds a link to the name, once.
BacklinkEntries(note, note_name_lower) ==
    LET links == ExtractWikilinks(note.content) IN
    IF \E k \in 1..Len(links) : LowerStr(links[k].target) = note_name_lower
    THEN <<Entry(note.title, note.path)>>
    ELSE <<>>

RECURSIVE BacklinksOf(_, _)
BacklinksOf(notes, note_name_lower) ==
    IF notes = <<>> THEN <<>>
    ELSE BacklinkEntries(Head(notes), note_name_lower)
             \o BacklinksOf(Tail(notes), note_name_lower)

\* get_backlinks that compares the targets with the name as it is spelled.
GetBacklinksAsSpelled(note_name) ==
    LET it == IterNotes IN
    IF it.kind = "error" THEN it
    ELSE EntriesR(BacklinksOf(it.notes, note_name))

\* get_backlinks(note_name): an exception of _iter_notes ends the call.
GetBacklinks(note_name) ==
    LET it == IterNotes IN
    IF it.kind = "error" THEN it
    ELSE EntriesR(BacklinksOf(it.notes, LowerStr(note_name)))

\* A lookup that compares the names as they are spelled.
FindNoteByNameExact(name) ==
    LET paths == ListNotes(Rel(<<>>)).paths
        hits == {i \in 1..Len(paths) : Stem(Name(paths[i])) = name}
    IN  IF hits = {} THEN NoneV
        ELSE StrV(paths[CHOOSE i \in hits : \A j \in hits : i <= j])

\* _find_note_by_name(name): the first listed path whose stem is the name,
\* letter case apart.
FindNoteByName(name) ==
    LET paths == ListNotes(Rel(<<>>)).paths
        hits == {i \in 1..Len(paths) : LowerStr(Stem(Name(paths[i]))) = LowerStr(name)}
    IN  IF hits = {} THEN NoneV
        ELSE StrV(paths[CHOOSE i \in hits : \A j \in hits : i <= j])

RECURSIVE OutgoingOf(_)
OutgoingOf(links) ==
    IF links = <<>> THEN <<>>
    ELSE LET target_path == FindNoteByName(Head(links).target) IN
         (IF Truthy(target_path)
          THEN <<Entry(Head(links).target, Rel(target_path.v))>>
          ELSE <<>>) \o OutgoingOf(Tail(links))

\* get_outgoing_links(relative_path)
GetOutgoingLinks(rp) ==
    LET r == ReadNote(rp) IN
    IF r.kind = "error" THEN r
    ELSE IF r.kind = "none" THEN EntriesR(<<>>)
    ELSE EntriesR(OutgoingOf(ExtractWikilinks(r.note.content)))

\* ---------------------------------------------------------- batch resolver

\* The characters of a metadata key.
KeyChars(k) ==
    CASE k = "aliases" -> <<"a", "l", "i", "a", "s", "e", "s">>
      [] k = "content" -> <<"c", "o", "n", "t", "e", "n", "t">>
      [] k = "created" -> <<"c", "r", "e", "a", "t", "e", "d">>
      [] k = "k" -> <<"k">>
      [] k = "modified" -> <<"m", "o", "d", "i", "f", "i", "e", "d">>
      [] k = "tags" -> <<"t", "a", "g", "s">>
      [] k = "title" -> <<"t", "i", "t", "l", "e">>

\* yaml.dump writes the keys in sorted order.
KeyOrder == <<"aliases", "content", "created", "k", "modified", "tags", "title">>

RECURSIVE YamlItems(_)
YamlItems(l) ==
    IF l = <<>> THEN <<>> ELSE <<"\n", "-", " ">> \o Head(l) \o YamlItems(Tail(l))

YamlValue(v) ==
    CASE v.kind = "none" -> <<" ", "n", "u", "l", "l">>
      [] v.kind = "str" -> <<" ">> \o v.v
      [] v.kind = "list" -> IF v.v = <<>> THEN <<" ", "[", "]">> ELSE YamlItems(v.v)

RECURSIVE YamlLines(_, _)
YamlLines(meta, keys) ==
    IF keys = <<>> THEN <<>>
    ELSE (IF Head(keys) \in DOMAIN meta
          THEN KeyChars(Head(keys)) \o <<":">> \o YamlValue(meta[Head(keys)]) \o <<"\n">>
          ELSE <<>>) \o YamlLines(meta, Tail(keys))

fence == <<"-", "-", "-", "\n">>

\* The text of one token: a metadata block is "---\n<yaml>\n---\n\n".
TokChars(tok) ==
    CASE tok.t = "ch" -> <<tok.c>>
      [] tok.t = "fm" -> fence \o (IF DOMAIN tok.meta = {} THEN <<"{", "}", "\n">>
                                   ELSE YamlLines(tok.meta, KeyOrder))
                               \o fence \o <<"\n">>
      [] tok.t = "badfm" -> fence \o <<":", " ", "[", "\n">> \o fence \o <<"\n">>
      [] tok.t = "byte" -> <<"-">>

\* Path.read_text(encoding="utf-8") of a decodable file: the whole stored text.
RECURSIVE RawText(_)
RawText(toks) == IF toks = <<>> THEN <<>> ELSE TokChars(Head(toks)) \o RawText(Tail(toks))

\* The orders in which a directory scan may yield the entries of S.
RECURSIVE Perms(_)
Perms(S) ==
    IF S = {} THEN {<<>>}
    ELSE UNION {{<<x>> \o q : q \in Perms(S \ {x})} : x \in S}

\* The index of a key in the graph (insertion order), 0 without it.
KeyIndex(graph, key) ==
    IF \E i \in 1..Len(graph) : graph[i].key = key
    THEN CHOOSE i \in 1..Len(graph) : graph[i].key = key
    ELSE 0

\* A graph that takes every scanned file as a new entry.
GraphPutAppend(graph, data) == Append(graph, data)

\* graph[note_name] = {...}: a key that is there keeps its place.
GraphPut(graph, data) ==
    LET i == KeyIndex(graph, data.key) IN
    IF i = 0 THEN Append(graph, data) ELSE [graph EXCEPT ![i] = data]

\* scan_vault, first pass (lines 66-84): hidden names are skipped, and so is
\* what cannot be read as text (a directory, bytes that are not UTF-8).
RECURSIVE FirstPass(_, _)
FirstPass(order, graph) ==
    IF order = <<>> THEN graph
    ELSE LET md_file == Head(order) IN
         IF StartsWith(Name(md_file), <<".">>) THEN FirstPass(Tail(order), graph)
         ELSE IF ~ IsFile(md_file) \/ Undecodable(files[md_file])
              THEN FirstPass(Tail(order), graph)
              ELSE FirstPass(Tail(order),
                     GraphPut(graph,
                       [key |-> Stem(Name(md_file)),
                        path |-> Rel(ToRelative(md_file).rel),
                        outgoing_links |-> ResolverExtractWikilinks(RawText(files[md_file])),
                        backlinks |-> <<>>]))

\* A key lookup that compares the names as they are spelled.
FindKeyExact(graph, name) ==
    LET hits == {i \in 1..Len(graph) : graph[i].key = name} IN
    IF hits = {} THEN 0 ELSE CHOOSE i \in hits : \A j \in hits : i <= j

\* Lines 90-94, 110-114: the first key that is the name, letter case apart.
FindKey(graph, name) ==
    LET hits == {i \in 1..Len(graph) : LowerStr(graph[i].key) = LowerStr(name)} IN
    IF hits = {} THEN 0 ELSE CHOOSE i \in hits : \A j \in hits : i <= j

\* scan_vault, second pass (lines 87-97), at link j of entry i.
RECURSIVE SecondPass(_, _, _)
SecondPass(graph, i, j) ==
    IF i > Len(graph) THEN graph
    ELSE IF j > Len(graph[i].outgoing_links) THEN SecondPass(graph, i + 1, 1)
    ELSE LET t == FindKey(graph, graph[i].outgoing_links[j]) IN
         IF t = 0 THEN SecondPass(graph, i, j + 1)
         ELSE SecondPass([graph EXCEPT ![t].backlinks = Append(@, graph[i].key)], i, j + 1)

\* scan_vault() when rglob yields the entries in the given order.
ScanVault(order) == SecondPass(FirstPass(order, <<>>), 1, 1)

\* BacklinkResolver.get_backlinks(note_name)
ResolverGetBacklinks(order, note_name) ==
    LET graph == ScanVault(order)
        k == FindKey(graph, note_name)
    IN  IF k = 0 THEN <<>>
        ELSE [b \in 1..Len(graph[k].backlinks) |->
                 Entry(graph[k].backlinks[b],
                       graph[KeyIndex(graph, graph[k].backlinks[b])].path)]

RECURSIVE ResolvedTargets(_, _)
ResolvedTargets(graph, targets) ==
    IF targets = <<>> THEN <<>>
    ELSE LET t == FindKey(graph, Head(targets)) IN
         (IF t = 0 THEN <<>> ELSE <<Entry(graph[t].key, graph[t].path)>>)
             \o ResolvedTargets(graph, Tail(targets))

\* BacklinkResolver.get_outgoing_links(note_name)
ResolverGetOutgoingLinks(order, note_name) ==
    LET graph == ScanVault(order)
        k == FindKey(graph, note_name)
    IN  IF k = 0 THEN <<>> ELSE ResolvedTargets(graph, graph[k].outgoing_links)

\* ------------------------------------------------------------------ search

\* context_chars of _extract_excerpts.
context_chars == 100

Min(a, b) == IF a <= b THEN a ELSE b

\* str.find(term): the 0-based index of the first occurrence, -1 as "none".
Find(text, term) ==
    LET at == {i \in 0..Len(text) : i + Len(term) <= Len(text)
                                    /\ SubSeq(text, i + 1, i + Len(term)) = term}
    IN  IF at = {} THEN [found |-> FALSE]
        ELSE [found |-> TRUE, idx |-> CHOOSE i \in at : \A j \in at : i <= j]

ellipsis == <<".", ".", ".">>

\* An excerpt whose window ends context_chars behind the start of the term.
ExcerptShortWindow(content, term) ==
    LET f == Find(LowerStr(content), term) IN
    IF ~ f.found THEN <<>>
    ELSE LET start == IF f.idx >= context_chars THEN f.idx - context_chars ELSE 0
             end == Min(Len(content), f.idx + context_chars)
         IN  <<(IF start > 0 THEN ellipsis ELSE <<>>)
                 \o SubSeq(content, start + 1, end)
                 \o (IF end < Len(content) THEN ellipsis ELSE <<>>)>>

\* Lines 250-259: the excerpt around the first occurrence of a term, if any.
Excerpt(content, term) ==
    LET f == Find(LowerStr(content), term) IN
    IF ~ f.found THEN <<>>
    ELSE LET start == IF f.idx >= context_chars THEN f.idx - context_chars ELSE 0
             end == Min(Len(content), f.idx + Len(term) + context_chars)
         IN  <<(IF start > 0 THEN ellipsis ELSE <<>>)
                 \o SubSeq(content, start + 1, end)
                 \o (IF end < Len(content) THEN ellipsis ELSE <<>>)>>

RECURSIVE ExcerptsOf(_, _)
ExcerptsOf(content, terms) ==
    IF terms = <<>> THEN <<>>
    ELSE Excerpt(content, Head(terms)) \o ExcerptsOf(content, Tail(terms))

\* _extract_excerpts(content, terms): at most three.
ExtractExcerpts(content, terms) ==
    LET excerpts == ExcerptsOf(content, terms) IN
    SubSeq(excerpts, 1, Min(3, Len(excerpts)))

\* sum(1 for term in query_terms if term in text)
Matches(terms, text) == Cardinality({i \in 1..Len(terms) : Contains(text, terms[i])})

\* A score is the fraction num/den; min(score, 1.0).
Fraction(num, den) == IF num > den THEN [num |-> 1, den |-> 1] ELSE [num |-> num, den |-> den]

\* a > b for fractions with positive denominators.
Greater(a, b) == a.num * b.den > b.num * a.den

\* A score that counts a title match once.
ScoreUnweighted(title_matches, content_matches, terms) ==
    Fraction(title_matches + content_matches, Len(terms) * 3)

\* Lines 227-228: (title_matches * 2 + content_matches) / (len(query_terms) * 3)
Score(title_matches, content_matches, terms) ==
    Fraction(title_matches * 2 + content_matches, Len(terms) * 3)

\* list.sort(key=score, reverse=True): stable, equal scores keep their order.
RECURSIVE SortByScore(_)
SortByScore(results) ==
    IF results = <<>> THEN <<>>
    ELSE LET best == CHOOSE i \in 1..Len(results) :
                       /\ \A j \in 1..Len(results) : ~ Greater(results[j].score, results[i].score)
                       /\ \A j \in 1..(i - 1) : Greater(results[i].score, results[j].score)
             rest == [k \in 1..(Len(results) - 1) |->
                         IF k < best THEN results[k] ELSE results[k + 1]]
         IN  <<results[best]>> \o SortByScore(rest)

\* A truncation that keeps one result more.
TruncateLoose(results, max_results) ==
    SubSeq(results, 1, Min(max_results + 1, Len(results)))

\* results[:max_results] for max_results >= 0
Truncate(results, max_results) == SubSeq(results, 1, Min(max_results, Len(results)))

\* The loop of search_notes (lines 215-233) over the notes that were read; the
\* division raises when there are no terms.
RECURSIVE SearchFrom(_, _, _)
SearchFrom(notes, query_terms, results) ==
    IF notes = <<>> THEN ResultsR(results)
    ELSE LET note == Head(notes)
             title_matches == Matches(query_terms, LowerStr(note.title))
             content_matches == Matches(query_terms, LowerStr(note.content))
         IN  IF title_matches = 0 /\ content_matches = 0
             THEN SearchFrom(Tail(notes), query_terms, results)
             ELSE IF Len(query_terms) * 3 = 0 THEN Err("ZeroDivisionError")
             ELSE SearchFrom(Tail(notes), query_terms,
                    Append(results,
                      [note |-> note,
                       score |-> Score(title_matches, content_matches, query_terms),
                       excerpts |-> ExtractExcerpts(note.content, query_terms)]))

\* A search that takes the terms of the query as they are spelled.
SearchNotesAsSpelled(query, max_results) ==
    LET query_terms == Split(query)
        it == IterNotes
    IN  IF it.kind = "error" THEN it
        ELSE LET found == SearchFrom(it.notes, query_terms, <<>>) IN
             IF found.kind = "error" THEN found
             ELSE ResultsR(Truncate(SortByScore(found.results), max_results))

\* search_notes(query, max_results)
SearchNotes(query, max_results) ==
    LET query_terms == Split(LowerStr(query))
        it == IterNotes
    IN  IF it.kind = "error" THEN it
        ELSE LET found == SearchFrom(it.notes, query_terms, <<>>) IN
             IF found.kind = "error" THEN found
             ELSE ResultsR(Truncate(SortByScore(found.results), max_results))

\* ----------------------------------------------------------------- webhook

\* A header value is None or a string, a string being a sequence of characters.
\* The hex digest of a message authentication code is kept as one character
\* that names its key and its message; "e-acute" is a character beyond ASCII.
sha256Prefix == <<"s", "h", "a", "2", "5", "6", "=">>

\* Lines 36-40: "sha256=" + hmac.new(secret, payload, sha256).hexdigest()
ExpectedSignature(secret, payload) ==
    sha256Prefix \o <<"hmac(" \o secret \o "," \o payload \o ")">>

\* verify_github_signature(payload, signature) under WEBHOOK_SECRET = secret;
\* hmac.compare_digest raises TypeError for a str that is not ASCII.
VerifyGithubSignature(secret, payload, signature) ==
    IF ~ Truthy(signature) THEN BoolR(FALSE)
    ELSE IF secret = "" THEN BoolR(TRUE)
    ELSE IF ~ StartsWith(signature.v, sha256Prefix) THEN BoolR(FALSE)
    ELSE LET expected_signature == ExpectedSignature(secret, payload) IN
         IF \E i \in 1..Len(signature.v) : signature.v[i] = "e-acute"
         THEN Err("TypeError")
         ELSE BoolR(signature.v = expected_signature)

\* request.json(): the bodies are named by their text.  What matters of a
\* parsed payload is whether it is an object and what it holds as repository.
RequestJson(body) ==
    CASE body = "{}" -> [ok |-> TRUE, object |-> TRUE, repository |-> "missing"]
      [] body = "{repository:{}}" -> [ok |-> TRUE, object |-> TRUE, repository |-> "object"]
      [] body = "{repository:null}" -> [ok |-> TRUE, object |-> TRUE, repository |-> "null"]
      [] body = "[]" -> [ok |-> TRUE, object |-> FALSE]
      [] body = "{" -> [ok |-> FALSE]

\* Lines 61-66: the event types that have a handler.
event_handlers == {"ping", "push", "pull_request", "issues"}

\* github_webhook: the status of the response, the handler that ran ("none" if
\* none did), and for a WebhookResponse its status, event and whether the
\* message tells of a processed event.  An exception that is no HTTPException
\* ends the request with status 500.
GithubWebhook(secret, x_github_event, x_hub_signature_256, body) ==
    LET verified == VerifyGithubSignature(secret, body, x_hub_signature_256)
        payload == RequestJson(body)
        Rejected(code, why) ==
            [kind |-> "http", status_code |-> code, detail |-> why, handler |-> "none"]
    IN  IF verified.kind = "error" THEN Rejected(500, verified.err)
        ELSE IF ~ verified.val THEN Rejected(401, "Invalid signature")
        ELSE IF ~ payload.ok THEN Rejected(400, "Invalid JSON payload")
        ELSE IF ~ payload.object \/ payload.repository = "null"
             THEN Rejected(500, "AttributeError")
        ELSE IF x_github_event.kind = "str" /\ x_github_event.v \in event_handlers
             THEN [kind |-> "http", status_code |-> 200, handler |-> x_github_event.v,
                   status |-> "ok", event |-> x_github_event.v, processed |-> TRUE]
             ELSE [kind |-> "http", status_code |-> 200, handler |-> "none",
                   status |-> "ok",
                   event |-> IF x_github_event.kind = "str" /\ x_github_event.v # ""
                             THEN x_github_event.v ELSE "unknown",
                   processed |-> FALSE]

\* ------------------------------------------------------------------ inputs

cX == <<"x">>
cXY == <<"x", "y">>
sT == <<"T">>

Payload(content, metadata) == [content |-> content, metadata |-> metadata]

MetaOf(key, value) == [k \in {key} |-> value]

plPlain == Payload(cX, EmptyMeta)
plTitle == Payload(cXY, MetaOf("title", StrV(sT)))
plContentKey == Payload(cX, MetaOf("content", StrV(cX)))

\* Written: a plain note, one with whitespace around its text, titles that
\* are set and empty, every kind of metadata value, and a key named content.
Payloads ==
    {plPlain,
     Payload(<<" ", "x", "\n">>, EmptyMeta),
     plTitle,
     Payload(cX, MetaOf("title", StrV(<<>>))),
     Payload(<<>>, [k \in {"title", "tags", "created", "k"} |->
                      CASE k = "title" -> StrV(sT)
                        [] k = "tags" -> ListV(<<sT, cX>>)
                        [] k = "created" -> StrV(cXY)
                        [] k = "k" -> StrV(cX)]),
     plContentKey}

\* Paths of at most two components over a directory name, a note name and "..",
\* and some longer, hidden, sibling and absolute ones.
Paths ==
    LET Segs == {nA, nMd, nUp} IN
    {Rel(<<>>)} \cup {Rel(<<x>>) : x \in Segs} \cup {Rel(<<x, y>>) : x, y \in Segs}
    \cup {Rel(<<nHid>>),
          Rel(<<nA, nUp, nMd>>),
          Rel(<<nA, nUp, nUp, nA>>),
          Rel(<<nUp, nV2>>),
          Rel(<<nUp, nV2, nMd>>),
          Abs(<<nV, nMd>>),
          Abs(<<nA>>)}

pNote == Rel(<<nMd>>)

\* What the caller writes: every path with a plain note, one path with every payload.
WriteInputs ==
    {<<rp, plPlain>> : rp \in Paths} \cup {<<pNote, pl>> : pl \in Payloads}

\* Texts for the link extractors: every concatenation of at most MaxPieces of
\* the pieces "[[", "]]", "#", "|", " " and "A", and some longer ones.
RECURSIVE Concat(_)
Concat(ps) == IF ps = <<>> THEN <<>> ELSE Head(ps) \o Concat(Tail(ps))

\* "[[A]] [[B#H]] [[C|X]] [[D#H|X]]"
docFour ==
    <<"[", "[", "A", "]", "]", " ", "[", "[", "B", "#", "H", "]", "]", " ",
      "[", "[", "C", "|", "X", "]", "]", " ",
      "[", "[", "D", "#", "H", "|", "X", "]", "]">>

\* "[[ A # H | X ]]"
docSpaced ==
    <<"[", "[", " ", "A", " ", "#", " ", "H", " ", "|", " ", "X", " ", "]", "]">>

\* "[[A]] x [[A]] [[a]] [[A]]"
docRepeat ==
    <<"[", "[", "A", "]", "]", " ", "x", " ", "[", "[", "A", "]", "]", " ",
      "[", "[", "a", "]", "]", " ", "[", "[", "A", "]", "]">>

\* The four forms of the markup with a target, heading and alias "A" that
\* whitespace may surround.
FormParts == {<<"A">>, <<" ", "A">>, <<"A", " ">>, <<" ", "A", " ">>}

Form(t, h, a) ==
    <<"[", "[">> \o t \o (IF h = <<>> THEN <<>> ELSE <<"#">> \o h)
                 \o (IF a = <<>> THEN <<>> ELSE <<"|">> \o a) \o <<"]", "]">>

\* The last of the longer texts is "[[[A]B]] [[A|X]Y]] [[A#H#H|X|X]]".
Docs ==
    LET Pieces == {<<"[", "[">>, <<"]", "]">>, <<"#">>, <<"|">>, <<" ">>, <<"A">>} IN
    {Concat(ps) : ps \in UNION {[1..n -> Pieces] : n \in 0..MaxPieces}}
    \cup {Form(t, h, a) : t \in FormParts, h, a \in FormParts \cup {<<>>}}
    \cup {docFour, docSpaced, docRepeat,
          <<"[", "[", "[", "A", "]", "B", "]", "]", " ",
            "[", "[", "A", "|", "X", "]", "Y", "]", "]", " ",
            "[", "[", "A", "#", "H", "#", "H", "|", "X", "|", "X", "]", "]">>}

\* Vaults as found at construction: files put there by the user's editor.
rawPlain == Text(cX)

fileNote == VaultPath \o <<nMd>>
fileSub == VaultPath \o <<nA, nMd>>
dirSub == VaultPath \o <<nA>>

NoFiles == [p \in {} |-> <<>>]

vaultEmpty == [files |-> NoFiles, dirs |-> {}]

\* A note with a title in its metadata block, and a hidden file.
vaultTitled ==
    [files |-> PutFile(PutFile(NoFiles, fileNote,
                               <<FmTok(MetaOf("title", StrV(sT)))>> \o Text(<<"\n">> \o cX)),
                       VaultPath \o <<nHid>>, rawPlain),
     dirs |-> {}]

\* a/n.md holds a byte that is not UTF-8.
vaultBadBytes ==
    [files |-> PutFile(NoFiles, fileSub, <<Ch("x"), BadByte>>), dirs |-> {dirSub}]

\* n.md holds a metadata block that is not YAML.
vaultBadYaml ==
    [files |-> PutFile(PutFile(NoFiles, fileSub, rawPlain), fileNote,
                       <<BadFmTok>> \o Text(cX)),
     dirs |-> {dirSub}]

Vaults ==
    {vaultEmpty,
     vaultTitled,
     vaultBadBytes,
     vaultBadYaml}

\* Notes that link to each other: n.md, N.md and m.md at the root of the vault.
nCap == <<"N", ".", "m", "d">>
nM == <<"m", ".", "m", "d">>

GraphPaths == {pNote, Rel(<<nCap>>), Rel(<<nM>>)}

\* "[[N]] [[n]] [[x]]"
cLinks ==
    <<"[", "[", "N", "]", "]", " ", "[", "[", "n", "]", "]", " ",
      "[", "[", "x", "]", "]">>

\* Written: "x", "[[N]] [[n]] [[x]]", and "[[ m |a]] x" under the title T.
GraphPayloads ==
    {plPlain,
     Payload(cLinks, EmptyMeta),
     Payload(<<"[", "[", " ", "m", " ", "|", "a", "]", "]", " ", "x">>,
             MetaOf("title", StrV(sT)))}

\* Besides three of the vaults above: n.md links twice to m.md ("[[m]] [[M]]"),
\* which links back; n.md holds a link ("[[m]]") in its metadata block only
\* while x.md is a directory; n.md is "[[N]] [[n]] [[x]]" without a metadata
\* block while x.md is a directory.
GraphVaults ==
    {vaultEmpty, vaultBadBytes, vaultBadYaml,
     [files |-> PutFile(PutFile(NoFiles, fileNote,
                                Text(<<"[", "[", "m", "]", "]", " ", "[", "[", "M", "]", "]">>)),
                        VaultPath \o <<nM>>, Text(cLinks)),
      dirs |-> {}],
     [files |-> PutFile(NoFiles, fileNote,
                        <<FmTok(MetaOf("title", StrV(<<"[", "[", "m", "]", "]">>)))>>
                            \o Text(cX)),
      dirs |-> {VaultPath \o <<<<"x", ".", "m", "d">>>>}],
     [files |-> PutFile(NoFiles, fileNote, Text(cLinks)),
      dirs |-> {VaultPath \o <<<<"x", ".", "m", "d">>>>}]}

\* Note names asked for, queries searched for.
NoteNames == {<<"n">>, <<"N">>, <<"m">>, <<"x">>}

Queries ==
    {<<>>, <<" ">>, <<"x">>, <<"X">>, <<"t", " ", "x">>, <<"n", " ", "m">>, <<"y">>}

\* Requests to the webhook: with and without a configured secret; every event
\* with a handler, one without, an empty and a missing event header; no
\* signature, an empty one, one of another format, the right one, one made
\* with another key and one that is not ASCII; bodies that are objects, an
\* array, and no JSON.
Requests ==
    LET Signatures(body) ==
            {NoneV, StrV(<<>>), StrV(<<"x">>),
             StrV(ExpectedSignature("k", body)),
             StrV(ExpectedSignature("k2", body)),
             StrV(sha256Prefix \o <<"e-acute">>)}
    IN  UNION {{[secret |-> secret, event |-> event, signature |-> signature,
                 body |-> body] :
                   secret \in {"", "k"},
                   event \in {NoneV, StrV("")}
                             \cup {StrV(e) : e \in event_handlers \cup {"star"}},
                   signature \in Signatures(body)} :
               body \in {"{}", "{repository:{}}", "{repository:null}", "[]", "{"}}

\* Bodies and terms for the excerpts: "Xy" or "yxX" with nothing, one character
\* or about context_chars characters of other text before and behind it, and
\* every list of at most MaxTerms of the terms "x", "y" and "z".
ExcerptInputs ==
    LET Pad(n) == [i \in 1..n |-> "."]
        Pads == {0, 1, context_chars - 1, context_chars, context_chars + 1}
    IN  {[content |-> Pad(a) \o core \o Pad(b), terms |-> terms] :
            a \in Pads, b \in Pads,
            core \in {<<"X", "y">>, <<"y", "x", "X">>},
            terms \in UNION {[1..n -> {<<"x">>, <<"y">>, <<"z">>}] : n \in 0..MaxTerms}}

\* ------------------------------------------------------------------- calls

Callers == {1, 2}

IdleCall ==
    [pc |-> "idle", op |-> "none", path |-> Rel(<<>>), content |-> <<>>,
     metadata |-> EmptyMeta, note_name |-> <<>>, query |-> <<>>, max_results |-> 0,
     order |-> <<>>, abs |-> <<>>, buf |-> <<>>, unlinked |-> FALSE,
     terms |-> <<>>, request |-> <<>>, ret |-> Pending]

Ready(c) == calls[c].pc = "idle"

Done(cl, r) == [cl EXCEPT !.pc = "done", !.ret = r, !.buf = <<>>, !.unlinked = FALSE]

\* write_note without lines 154-155: None is returned as it is.
FinishReadPassesNone(cl, r) == Done(cl, r)

\* What read_note's caller gets: write_note turns None into the RuntimeError
\* (lines 153-156), everything else passes through.
FinishRead(cl, r) ==
    IF cl.op = "write" /\ r.kind = "none" THEN Done(cl, Err("RuntimeError"))
    ELSE Done(cl, r)

\* The check at the head of read_note; the read of the file is awaited.
ReadStep(cl) ==
    LET chk == ReadCheck(cl.path) IN
    IF chk # Pending THEN FinishRead(cl, chk)
    ELSE [cl EXCEPT !.pc = "r_read", !.abs = ValidatePath(cl.path).path]

\* read_note(relative_path), lines 87-90.
ReadNote_Begin(c, rp) ==
    /\ Ready(c)
    /\ calls' = [calls EXCEPT ![c] = ReadStep([IdleCall EXCEPT !.op = "read", !.path = rp])]
    /\ UNCHANGED <<files, dirs>>

\* aiofiles.open + f.read(), lines 92-93.
ReadNote_Read(c) ==
    /\ calls[c].pc = "r_read"
    /\ LET cl == calls[c]
           opened == ReadOpen(cl.abs)
       IN  calls' = [calls EXCEPT ![c] =
                IF opened # Pending THEN FinishRead(cl, opened)
                ELSE [cl EXCEPT !.pc = "r_parse", !.buf = files[cl.abs]]]
    /\ UNCHANGED <<files, dirs>>

\* frontmatter.loads, the Note and stat(), lines 96-116.
ReadNote_Parse(c) ==
    /\ calls[c].pc = "r_parse"
    /\ LET cl == calls[c] IN
       calls' = [calls EXCEPT ![c] = FinishRead(cl, ReadParse(cl.path, cl.abs, cl.buf))]
    /\ UNCHANGED <<files, dirs>>

\* write_note(relative_path, content, metadata), lines 140-145: validation, the
\* parent directories, the encoded text.
WriteNote_Begin(c, rp, pl) ==
    /\ Ready(c)
    /\ LET cl == [IdleCall EXCEPT !.op = "write", !.path = rp,
                                  !.content = pl.content, !.metadata = pl.metadata]
           v == ValidatePath(rp)
       IN  IF ~ v.ok
           THEN /\ calls' = [calls EXCEPT ![c] = Done(cl, Err("PathTraversal"))]
                /\ UNCHANGED dirs
           ELSE /\ IsFile(v.path) \/ Cardinality(DOMAIN files) < MaxFiles
                /\ IF ~ MkdirOk(Parent(v.path))
                   THEN /\ calls' = [calls EXCEPT ![c] =
                                        Done([cl EXCEPT !.abs = v.path], Err("OSError"))]
                        /\ UNCHANGED dirs
                   ELSE /\ dirs' = dirs \cup Ancestors(Parent(v.path))
                        /\ calls' = [calls EXCEPT ![c] =
                                IF PostCollides(pl.metadata)
                                THEN Done([cl EXCEPT !.abs = v.path], Err("TypeError"))
                                ELSE [cl EXCEPT !.abs = v.path, !.pc = "w_open"]]
    /\ UNCHANGED files

\* aiofiles.open(abs_path, "w"), line 147: creates or truncates the file.
WriteNote_Open(c) ==
    /\ calls[c].pc = "w_open"
    /\ LET cl == calls[c] IN
       IF IsDir(cl.abs)
       THEN /\ calls' = [calls EXCEPT ![c] = Done(cl, Err("OSError"))]
            /\ UNCHANGED files
       ELSE /\ files' = PutFile(files, cl.abs, <<>>)
            /\ calls' = [calls EXCEPT ![c] = [cl EXCEPT !.pc = "w_write"]]
    /\ UNCHANGED dirs

\* f.write(raw_content) and the close, line 148: the text lands at offset 0 of
\* the file that was opened, which may have been unlinked since.
WriteNote_Write(c) ==
    /\ calls[c].pc = "w_write"
    /\ LET cl == calls[c] IN
       /\ files' = IF cl.unlinked THEN files
                   ELSE PutFile(files, cl.abs,
                                Overlay(Dumps(cl.content, cl.metadata), files[cl.abs]))
       /\ calls' = [calls EXCEPT ![c] = [cl EXCEPT !.pc = "w_reread", !.unlinked = FALSE]]
    /\ UNCHANGED dirs

\* await self.read_note(relative_path), line 153, up to its first await.
WriteNote_Reread(c) ==
    /\ calls[c].pc = "w_reread"
    /\ calls' = [calls EXCEPT ![c] = ReadStep(calls[c])]
    /\ UNCHANGED <<files, dirs>>

\* delete_note(relative_path), lines 167-173; it awaits nothing.
DeleteNote(c, rp) ==
    /\ Ready(c)
    /\ LET cl == [IdleCall EXCEPT !.op = "delete", !.path = rp]
           v == ValidatePath(rp)
       IN  IF ~ v.ok
           THEN /\ calls' = [calls EXCEPT ![c] = Done(cl, Err("PathTraversal"))]
                /\ UNCHANGED files
           ELSE IF ~ Exists(v.path)
           THEN /\ calls' = [calls EXCEPT ![c] = Done([cl EXCEPT !.abs = v.path], BoolR(FALSE))]
                /\ UNCHANGED files
           ELSE IF IsDir(v.path)
           THEN /\ calls' = [calls EXCEPT ![c] = Done([cl EXCEPT !.abs = v.path], Err("OSError"))]
                /\ UNCHANGED files
           ELSE /\ files' = RemoveFile(files, v.path)
                /\ calls' = [d \in Callers |->
                        IF d = c THEN Done([cl EXCEPT !.abs = v.path], BoolR(TRUE))
                        ELSE IF calls[d].pc = "w_write" /\ calls[d].abs = v.path
                             THEN [calls[d] EXCEPT !.unlinked = TRUE]
                             ELSE calls[d]]
    /\ UNCHANGED dirs

\* list_notes(folder), lines 184-195.
ListNotes_Call(c, folder) ==
    /\ Ready(c)
    /\ calls' = [calls EXCEPT ![c] =
                    Done([IdleCall EXCEPT !.op = "list", !.path = folder], ListNotes(folder))]
    /\ UNCHANGED <<files, dirs>>

\* A scan of the corpus through _iter_notes (search_notes, get_backlinks), lines 263-268.
IterNotes_Call(c) ==
    /\ Ready(c)
    /\ calls' = [calls EXCEPT ![c] = Done([IdleCall EXCEPT !.op = "iter"], IterNotes)]
    /\ UNCHANGED <<files, dirs>>

\* extract_wikilinks(content), lines 270-286: no storage, no await.
ExtractWikilinks_Call(c) ==
    /\ Ready(c)
    /\ \E content \in Docs :
          calls' = [calls EXCEPT ![c] =
                       Done([IdleCall EXCEPT !.op = "extract_wikilinks", !.content = content],
                            LinksR(ExtractWikilinks(content)))]
    /\ UNCHANGED <<files, dirs>>

\* BacklinkResolver.extract_wikilinks(content), lines 25-35.
Resolver_ExtractWikilinks_Call(c) ==
    /\ Ready(c)
    /\ \E content \in Docs :
          calls' = [calls EXCEPT ![c] =
                       Done([IdleCall EXCEPT !.op = "resolver_extract_wikilinks",
                                             !.content = content],
                            NamesR(ResolverExtractWikilinks(content)))]
    /\ UNCHANGED <<files, dirs>>

\* get_backlinks(note_name), lines 288-310.
GetBacklinks_Call(c, note_name) ==
    /\ Ready(c)
    /\ calls' = [calls EXCEPT ![c] =
                    Done([IdleCall EXCEPT !.op = "get_backlinks", !.note_name = note_name],
                         GetBacklinks(note_name))]
    /\ UNCHANGED <<files, dirs>>

\* get_outgoing_links(relative_path), lines 312-337.
GetOutgoingLinks_Call(c, rp) ==
    /\ Ready(c)
    /\ calls' = [calls EXCEPT ![c] =
                    Done([IdleCall EXCEPT !.op = "get_outgoing_links", !.path = rp],
                         GetOutgoingLinks(rp))]
    /\ UNCHANGED <<files, dirs>>

\* search_notes(query, max_results), lines 197-237.
SearchNotes_Call(c, query, max_results) ==
    /\ Ready(c)
    /\ calls' = [calls EXCEPT ![c] =
                    Done([IdleCall EXCEPT !.op = "search_notes", !.query = query,
                                          !.max_results = max_results],
                         SearchNotes(query, max_results))]
    /\ UNCHANGED <<files, dirs>>

\* BacklinkResolver.scan_vault(), lines 51-99; rglob yields the entries in an
\* order the directory scan decides.
Resolver_ScanVault_Call(c) ==
    /\ Ready(c)
    /\ \E order \in Perms(Rglob(VaultPath)) :
          calls' = [calls EXCEPT ![c] =
                       Done([IdleCall EXCEPT !.op = "scan_vault", !.order = order],
                            GraphR(ScanVault(order)))]
    /\ UNCHANGED <<files, dirs>>

\* BacklinkResolver.get_backlinks(note_name), lines 101-126.
Resolver_GetBacklinks_Call(c, note_name) ==
    /\ Ready(c)
    /\ \E order \in Perms(Rglob(VaultPath)) :
          calls' = [calls EXCEPT ![c] =
                       Done([IdleCall EXCEPT !.op = "resolver_get_backlinks",
                                             !.note_name = note_name, !.order = order],
                            EntriesR(ResolverGetBacklinks(order, note_name)))]
    /\ UNCHANGED <<files, dirs>>

\* BacklinkResolver.get_outgoing_links(note_name), lines 128-157.
Resolver_GetOutgoingLinks_Call(c, note_name) ==
    /\ Ready(c)
    /\ \E order \in Perms(Rglob(VaultPath)) :
          calls' = [calls EXCEPT ![c] =
                       Done([IdleCall EXCEPT !.op = "resolver_get_outgoing_links",
                                             !.note_name = note_name, !.order = order],
                            EntriesR(ResolverGetOutgoingLinks(order, note_name)))]
    /\ UNCHANGED <<files, dirs>>

\* _extract_excerpts(content, terms), lines 239-261: no storage, no await.
ExtractExcerpts_Call(c) ==
    /\ Ready(c)
    /\ \E input \in ExcerptInputs :
          calls' = [calls EXCEPT ![c] =
                       Done([IdleCall EXCEPT !.op = "extract_excerpts",
                                             !.content = input.content,
                                             !.terms = input.terms],
                            [kind |-> "excerpts",
                             excerpts |-> ExtractExcerpts(input.content, input.terms)])]
    /\ UNCHANGED <<files, dirs>>

\* POST /webhook, lines 34-84: the requests share no state.
Github_Webhook_Call(c) ==
    /\ Ready(c)
    /\ \E request \in Requests :
          calls' = [calls EXCEPT ![c] =
                       Done([IdleCall EXCEPT !.op = "github_webhook", !.request = request],
                            GithubWebhook(request.secret, request.event,
                                          request.signature, request.body))]
    /\ UNCHANGED <<files, dirs>>

\* The caller takes the result (or the exception) of its finished call.
Return(c) ==
    /\ calls[c].pc = "done"
    /\ calls' = [calls EXCEPT ![c] = IdleCall]
    /\ UNCHANGED <<files, dirs>>

\* ---------------------------------------------------------- specifications

\* VaultManager(vault_path) on an existing vault, lines 62-65.
InitFrom(vaults) ==
    /\ \E vault \in vaults :
          /\ files = vault.files
          /\ dirs = {<<>>, VaultPath} \cup vault.dirs
    /\ calls = [c \in Callers |-> IdleCall]

Init == InitFrom(Vaults)

\* One caller, one operation at a time.
Next ==
    \/ \E rp \in Paths : ReadNote_Begin(1, rp)
    \/ ReadNote_Read(1)
    \/ ReadNote_Parse(1)
    \/ \E w \in WriteInputs : WriteNote_Begin(1, w[1], w[2])
    \/ WriteNote_Open(1)
    \/ WriteNote_Write(1)
    \/ WriteNote_Reread(1)
    \/ \E rp \in Paths : DeleteNote(1, rp)
    \/ \E rp \in Paths : ListNotes_Call(1, rp)
    \/ IterNotes_Call(1)
    \/ Return(1)

Spec == Init /\ [][Next]_vars

\* Two callers on one event loop: their calls interleave at every await.
pSub == Rel(<<nA, nMd>>)

ConcPaths == {Rel(<<>>), pNote, pSub}

ConcPayloads == {plPlain, plTitle, plContentKey}

NextConc ==
    \E c \in Callers :
        \/ \E rp \in ConcPaths : ReadNote_Begin(c, rp)
        \/ ReadNote_Read(c)
        \/ ReadNote_Parse(c)
        \/ \E rp \in ConcPaths, pl \in ConcPayloads : WriteNote_Begin(c, rp, pl)
        \/ WriteNote_Open(c)
        \/ WriteNote_Write(c)
        \/ WriteNote_Reread(c)
        \/ \E rp \in ConcPaths : DeleteNote(c, rp)
        \/ Return(c)

SpecConc == Init /\ [][NextConc]_vars

\* One caller that writes and deletes notes which link to each other, and asks
\* both link-graph implementations and the search about them.
NextGraph ==
    \/ \E rp \in GraphPaths, pl \in GraphPayloads : WriteNote_Begin(1, rp, pl)
    \/ WriteNote_Open(1)
    \/ WriteNote_Write(1)
    \/ WriteNote_Reread(1)
    \/ \E rp \in GraphPaths : ReadNote_Begin(1, rp)
    \/ ReadNote_Read(1)
    \/ ReadNote_Parse(1)
    \/ \E rp \in GraphPaths : DeleteNote(1, rp)
    \/ ListNotes_Call(1, Rel(<<>>))
    \/ \E name \in NoteNames : GetBacklinks_Call(1, name)
    \/ \E rp \in GraphPaths \cup {pSub, Rel(<<nUp>>)} : GetOutgoingLinks_Call(1, rp)
    \/ \E query \in Queries, max_results \in 0..MaxResults :
           SearchNotes_Call(1, query, max_results)
    \/ Resolver_ScanVault_Call(1)
    \/ \E name \in NoteNames : Resolver_GetBacklinks_Call(1, name)
    \/ \E name \in NoteNames : Resolver_GetOutgoingLinks_Call(1, name)
    \/ Return(1)

SpecGraph == InitFrom(GraphVaults) /\ [][NextGraph]_vars

\* The link extractors alone, on a vault that stays as it was found.
NextLinks ==
    \/ ExtractWikilinks_Call(1)
    \/ Resolver_ExtractWikilinks_Call(1)
    \/ Return(1)

SpecLinks == InitFrom({vaultTitled}) /\ [][NextLinks]_vars

\* The webhook endpoint alone.
NextWebhook ==
    \/ Github_Webhook_Call(1)
    \/ Return(1)

SpecWebhook == InitFrom({vaultEmpty}) /\ [][NextWebhook]_vars

\* The excerpts alone.
NextExcerpts ==
    \/ ExtractExcerpts_Call(1)
    \/ Return(1)

SpecExcerpts == InitFrom({vaultEmpty}) /\ [][NextExcerpts]_vars

\* ------------------------------------------------------------------ claims

\* The canonical resolution of vaultRoot/relativePath.
Resolved(rp) == Resolve(Join(VaultPath, rp))

Range(seq) == {seq[i] : i \in 1..Len(seq)}

Finished(c, op) == calls[c].pc = "done" /\ calls[c].op = op

\* C1: every call whose path resolves outside the vault root fails with
\* PathTraversal, whatever the number and position of "..", for absolute paths
\* and for sibling directories of the root.
C1_PathGuard ==
    \A c \in Callers :
        (/\ calls[c].op \in {"read", "write", "delete", "list"}
         /\ ~ IsUnder(Resolved(calls[c].path), VaultPath))
        => (calls[c].pc = "done" /\ calls[c].ret = Err("PathTraversal"))

\* C2: a read, write, delete or list(folder) whose path fails validation ends
\* at once with PathTraversal and changes neither files nor directories.
C2_TraversalPropagates ==
    [][\A c \in Callers :
          (/\ calls[c].pc = "idle"
           /\ calls'[c].op \in {"read", "write", "delete", "list"}
           /\ ~ ValidatePath(calls'[c].path).ok)
          => /\ calls'[c].pc = "done"
             /\ calls'[c].ret = Err("PathTraversal")
             /\ files' = files
             /\ dirs' = dirs]_vars

C2_Witness ==
    \E c \in Callers :
        /\ Finished(c, "write")
        /\ calls[c].ret = Err("PathTraversal")
        /\ files # NoFiles

\* C3: the path of every Note returned by read or write is relative, has no
\* ".." component and resolves under the vault root.
C3_NotePathCanonical ==
    \A c \in Callers :
        (calls[c].pc = "done" /\ calls[c].op \in {"read", "write"}
         /\ calls[c].ret.kind = "note")
        => LET path == calls[c].ret.note.path IN
           /\ ~ path.abs
           /\ nUp \notin Range(path.segs)
           /\ IsUnder(Resolved(path), VaultPath)

\* C4: after a write that returned, a read of the same path gives the written
\* content unchanged and the supplied title, or the filename stem without one.
C4_WriteReadRoundTrip ==
    \A c \in Callers :
        (Finished(c, "write") /\ calls[c].ret.kind = "note")
        => LET r == ReadNote(calls[c].path)
               supplied == calls[c].metadata
           IN  /\ r.kind = "note"
               /\ r.note.content = calls[c].content
               /\ r.note.title = IF "title" \in DOMAIN supplied
                                 THEN supplied["title"].v
                                 ELSE Stem(Name(Resolved(calls[c].path)))

\* C5: after write(path, body, meta) on a path that names a note, a read of the
\* path gives tags, aliases, created, modified and title as supplied (or [] and
\* None) and in extra exactly the other supplied fields.
C5_MetadataRoundTrip ==
    \A c \in Callers :
        (Finished(c, "write") /\ calls[c].ret # Err("PathTraversal")
         /\ calls[c].ret # Err("OSError"))
        => LET r == ReadNote(calls[c].path)
               supplied == calls[c].metadata
               Given(key, default) ==
                   IF key \in DOMAIN supplied THEN supplied[key] ELSE default
           IN  /\ r.kind = "note"
               /\ r.note.frontmatter.tags = Given("tags", ListV(<<>>))
               /\ r.note.frontmatter.aliases = Given("aliases", ListV(<<>>))
               /\ r.note.frontmatter.created = Given("created", NoneV)
               /\ r.note.frontmatter.modified = Given("modified", NoneV)
               /\ r.note.frontmatter.title = Given("title", NoneV)
               /\ DOMAIN r.note.frontmatter.extra = DOMAIN supplied \ KnownKeys
               /\ \A k \in DOMAIN supplied \ KnownKeys :
                      r.note.frontmatter.extra[k] = supplied[k]

\* C6: a file that cannot be decoded never surfaces as an error: a read of it
\* gives absent, and a corpus scan skips it and returns the other notes.
C6_DecodeFailureAbsent ==
    \A c \in Callers :
        /\ (Finished(c, "read") /\ ValidatePath(calls[c].path).ok)
           => /\ calls[c].ret.kind \in {"none", "note"}
              /\ (IsFile(Resolved(calls[c].path))
                  /\ Undecodable(files[Resolved(calls[c].path)]))
                 => calls[c].ret = NoneR
        /\ Finished(c, "iter") => calls[c].ret.kind = "notes"

\* C7: a read of a valid path gives absent, without an error, when the target
\* is missing or a directory, and a Note only when it is a regular file.
C7_ReadAbsent ==
    \A c \in Callers :
        (Finished(c, "read") /\ ValidatePath(calls[c].path).ok)
        => LET target == Resolved(calls[c].path) IN
           /\ ~ IsFile(target) => calls[c].ret = NoneR
           /\ calls[c].ret.kind = "note" => IsFile(target)

C7_Witness ==
    \E c \in Callers :
        /\ Finished(c, "read")
        /\ IsDir(Resolved(calls[c].path))
        /\ calls[c].ret = NoneR

\* C8 as claimed: a write on a valid path (with fields that encode) ends either
\* with the re-read Note or with InternalConsistency.
C8_WriteOutcome ==
    \A c \in Callers :
        (/\ Finished(c, "write")
         /\ ValidatePath(calls[c].path).ok
         /\ "content" \notin DOMAIN calls[c].metadata)
        => (calls[c].ret.kind = "note" \/ calls[c].ret = Err("RuntimeError"))

\* C8 amended: a write on a valid path fails with an OSError, changing nothing,
\* when a directory above the target is a regular file or the target is a
\* directory, and with the encoder's TypeError, after creating the directories,
\* when the fields do not encode.  Otherwise it creates the missing directories,
\* persists the encoded note and re-reads it; it ends with InternalConsistency
\* exactly when that re-read gives absent and with the re-read Note otherwise,
\* and the step that raises InternalConsistency changes no file.
C8_WriteOutcomeAmended ==
    [][\A c \in Callers :
          LET old == calls[c]
              new == calls'[c]
          IN
          /\ (old.pc = "idle" /\ new.op = "write" /\ ValidatePath(new.path).ok)
             => LET target == Resolved(new.path) IN
                IF \E a \in Ancestors(Parent(target)) : IsFile(a)
                THEN /\ new.pc = "done" /\ new.ret = Err("OSError")
                     /\ files' = files /\ dirs' = dirs
                ELSE /\ Ancestors(Parent(target)) \subseteq dirs'
                     /\ files' = files
                     /\ IF "content" \in DOMAIN new.metadata
                        THEN new.pc = "done" /\ new.ret = Err("TypeError")
                        ELSE new.pc = "w_open"
          /\ (old.pc = "w_open" /\ new.pc # "w_open")
             => IF old.abs \in dirs
                THEN new.pc = "done" /\ new.ret = Err("OSError") /\ files' = files
                ELSE new.pc = "w_write" /\ old.abs \in DOMAIN files'
          /\ (old.pc = "w_write" /\ new.pc # "w_write")
             => /\ new.pc = "w_reread"
                /\ ~ old.unlinked
                   => StartsWith(files'[old.abs], Dumps(old.content, old.metadata))
          /\ (old.op = "write" /\ old.pc \in {"w_reread", "r_read", "r_parse"}
              /\ new.pc = "done")
             => LET reread == CASE old.pc = "w_reread" -> ReadCheck(old.path)
                                [] old.pc = "r_read" -> ReadOpen(old.abs)
                                [] old.pc = "r_parse" ->
                                       ReadParse(old.path, old.abs, old.buf)
                IN  /\ (new.ret = Err("RuntimeError")) <=> (reread = NoneR)
                    /\ reread # NoneR => (new.ret = reread /\ reread.kind = "note")
                    /\ files' = files
                    /\ dirs' = dirs]_vars

C8_Witness ==
    \E c \in Callers : Finished(c, "write") /\ calls[c].ret = Err("RuntimeError")

\* C9: a delete of a valid path returns true exactly when a file was there, and
\* it is then removed; it returns false when nothing is there.  After a delete
\* that returned true a read of the path gives absent, list() does not hold the
\* path and a second delete would return false.
C9_Delete ==
    [][\A c \in Callers, rp \in Paths :
          (/\ calls[c].pc = "idle"
           /\ calls'[c].op = "delete"
           /\ calls'[c].path = rp
           /\ ValidatePath(rp).ok)
          => LET target == Resolved(rp)
                 r == calls'[c].ret
             IN  /\ (r = BoolR(TRUE)) <=> IsFile(target)
                 /\ ~ Exists(target) => r = BoolR(FALSE)
                 /\ r = BoolR(FALSE) => (~ Exists(target) /\ files' = files)
                 /\ r = BoolR(TRUE)
                    => /\ target \notin DOMAIN files'
                       /\ target \notin dirs'
                       /\ ReadNote(rp)' = NoneR
                       /\ LET l == ListNotes(Rel(<<>>))' IN
                          /\ l.kind = "list"
                          /\ \A i \in 1..Len(l.paths) : VaultPath \o l.paths[i] # target]_vars

C9_Witness ==
    \E c \in Callers :
        /\ Finished(c, "delete")
        /\ calls[c].ret = BoolR(TRUE)
        /\ EndsWith(Name(Resolved(calls[c].path)), mdSuffix)

\* C10: list(folder) is exactly the vault-relative paths of the regular files
\* below folder whose name ends in ".md" and does not start with ".", each once,
\* in ascending order, and so the part of list() that lies below folder.
C10_ListExactlyNotes ==
    \A c \in Callers :
        (Finished(c, "list") /\ calls[c].ret.kind = "list")
        => LET paths == calls[c].ret.paths
               folder == Resolved(calls[c].path)
               all == ListNotes(Rel(<<>>))
           IN  /\ Range(paths) =
                     {SubSeq(p, Len(VaultPath) + 1, Len(p)) :
                        p \in {q \in DOMAIN files :
                                 /\ IsUnder(q, folder) /\ q # folder
                                 /\ IsUnder(q, VaultPath)
                                 /\ EndsWith(Name(q), mdSuffix)
                                 /\ Head(Name(q)) # "."}}
               /\ \A i, j \in 1..Len(paths) :
                      i < j => StrLess(RelStr(paths[i]), RelStr(paths[j]))
               /\ all.kind = "list"
               /\ Range(paths) =
                     {p \in Range(all.paths) : IsUnder(VaultPath \o p, folder)
                                               /\ VaultPath \o p # folder}

\* The first index of s that holds a character of cs, Len(s) + 1 without one.
FirstOf(s, cs) ==
    IF \E i \in 1..Len(s) : s[i] \in cs
    THEN CHOOSE i \in 1..Len(s) : s[i] \in cs /\ \A j \in 1..(i - 1) : s[j] \notin cs
    ELSE Len(s) + 1

\* A link as the grammar reads its markup "[[" inner "]]".
LinkAsWritten(link) ==
    LET raw == link.raw
        inner == SubSeq(raw, 3, Len(raw) - 2)
        cut == FirstOf(inner, {"#", "|"})
        bar == FirstOf(inner, {"|"})
        hashPart == cut <= Len(inner) /\ inner[cut] = "#"
        barPart == bar <= Len(inner)
    IN  /\ Len(raw) >= 5
        /\ SubSeq(raw, 1, 2) = <<"[", "[">>
        /\ SubSeq(raw, Len(raw) - 1, Len(raw)) = <<"]", "]">>
        /\ link.target = Strip(SubSeq(inner, 1, cut - 1))
        /\ (link.heading # NoneV) <=> hashPart
        /\ hashPart => link.heading = StrV(Strip(SubSeq(inner, cut + 1, bar - 1)))
        /\ (link.alias # NoneV) <=> barPart
        /\ barPart => link.alias = StrV(Strip(SubSeq(inner, bar + 1, Len(inner))))

\* C11: each of the four forms gives one Link; a Link's target is the text up
\* to the first "#", "|" or the closing "]]", its heading is set only with a
\* "#" part and its alias only with a "|" part, all three trimmed; on
\* "[[A]] [[B#H]] [[C|X]] [[D#H|X]]" the targets are A, B, C, D, with a heading
\* for B and D only and an alias for C and D only.
C11_ExtractForms ==
    \A c \in Callers :
        Finished(c, "extract_wikilinks")
        => LET content == calls[c].content
               links == calls[c].ret.links
           IN  /\ calls[c].ret.kind = "links"
               /\ \A k \in 1..Len(links) : LinkAsWritten(links[k])
               /\ \A t \in FormParts, h, a \in FormParts \cup {<<>>} :
                      content = Form(t, h, a)
                      => links = <<[raw |-> content,
                                    target |-> <<"A">>,
                                    heading |-> IF h = <<>> THEN NoneV ELSE StrV(<<"A">>),
                                    alias |-> IF a = <<>> THEN NoneV ELSE StrV(<<"A">>)]>>
               /\ content = docFour
                  => /\ [k \in 1..Len(links) |-> links[k].target]
                          = <<<<"A">>, <<"B">>, <<"C">>, <<"D">>>>
                     /\ [k \in 1..Len(links) |-> links[k].heading]
                          = <<NoneV, StrV(<<"H">>), NoneV, StrV(<<"H">>)>>
                     /\ [k \in 1..Len(links) |-> links[k].alias]
                          = <<NoneV, NoneV, StrV(<<"X">>), StrV(<<"X">>)>>

C11_Witness ==
    \E c \in Callers :
        /\ Finished(c, "extract_wikilinks")
        /\ calls[c].content = docSpaced
        /\ Len(calls[c].ret.links) = 1
        /\ calls[c].ret.links[1].alias = StrV(<<"X">>)

\* raw is one well-formed markup "[[" target ("#" heading)? ("|" alias)? "]]".
IsMarkup(raw) ==
    LET inner == SubSeq(raw, 3, Len(raw) - 2)
        cut == FirstOf(inner, {"#", "|"})
        bar == FirstOf(inner, {"|"})
    IN  /\ Len(raw) >= 5
        /\ SubSeq(raw, 1, 2) = <<"[", "[">>
        /\ SubSeq(raw, Len(raw) - 1, Len(raw)) = <<"]", "]">>
        /\ \A i \in 1..Len(inner) : inner[i] # "]"
        /\ cut > 1
        /\ (cut <= Len(inner) /\ inner[cut] = "#") => bar > cut + 1
        /\ bar # Len(inner)

\* The least index from `from` on at which raw stands in s, 0 without one.
FirstAt(s, raw, from) ==
    LET at == {i \in from..Len(s) : i + Len(raw) - 1 <= Len(s)
                                    /\ SubSeq(s, i, i + Len(raw) - 1) = raw}
    IN  IF at = {} THEN 0 ELSE CHOOSE i \in at : \A j \in at : i <= j

\* Where the raw texts stand when each is sought behind the one before it.
RECURSIVE Starts(_, _, _)
Starts(s, raws, from) ==
    IF raws = <<>> THEN <<>>
    ELSE LET at == FirstAt(s, Head(raws), from) IN
         IF at = 0 THEN <<0>>
         ELSE <<at>> \o Starts(s, Tail(raws), at + Len(Head(raws)))

\* The links are the markup occurrences of content, one each, in document order.
OnePerOccurrence(content, links) ==
    LET raws == [k \in 1..Len(links) |-> links[k].raw]
        starts == Starts(content, raws, 1)
        Covered(i) == \E k \in 1..Len(links) :
                          starts[k] <= i /\ i < starts[k] + Len(raws[k])
    IN  /\ Len(starts) = Len(links)
        /\ \A k \in 1..Len(links) : starts[k] # 0 /\ IsMarkup(raws[k])
        /\ \A i \in 1..Len(content), j \in 1..Len(content) :
               (i < j /\ IsMarkup(SubSeq(content, i, j))) => Covered(i)

\* C12: extract_wikilinks returns for every text, without an error and without
\* touching the vault, one Link per markup occurrence in document order, equal
\* occurrences each counted, and nothing when no markup occurs; the batch
\* resolver's extract_wikilinks returns the targets of these links in that order.
C12_ExtractTotal ==
    [][\A c \in Callers :
          (calls[c].pc = "idle"
           /\ calls'[c].op \in {"extract_wikilinks", "resolver_extract_wikilinks"})
          => LET content == calls'[c].content
                 r == calls'[c].ret
             IN  /\ files' = files
                 /\ dirs' = dirs
                 /\ calls'[c].op = "extract_wikilinks"
                    => /\ r.kind = "links"
                       /\ OnePerOccurrence(content, r.links)
                 /\ calls'[c].op = "resolver_extract_wikilinks"
                    => /\ r.kind = "names"
                       /\ LET links == ExtractWikilinks(content) IN
                          /\ OnePerOccurrence(content, links)
                          /\ r.names = [k \in 1..Len(links) |-> links[k].target]]_vars

C12_Witness ==
    \E c \in Callers :
        /\ Finished(c, "resolver_extract_wikilinks")
        /\ calls[c].content = docRepeat
        /\ calls[c].ret.names = <<<<"A">>, <<"A">>, <<"a">>, <<"A">>>>

\* The listed paths that read as a note holding a link to the name, letter
\* case apart, each with the entry the note stands for.
LinkingNotes(name) ==
    LET listed == ListNotes(Rel(<<>>)).paths
        Linking(p) ==
            LET r == ReadNote(Rel(p)) IN
            /\ r.kind = "note"
            /\ \E k \in 1..Len(ExtractWikilinks(r.note.content)) :
                   LowerStr(ExtractWikilinks(r.note.content)[k].target) = LowerStr(name)
        sources == SelectSeq(listed, Linking)
    IN  [k \in 1..Len(sources) |->
            Entry(ReadNote(Rel(sources[k])).note.title, Rel(sources[k]))]

\* C13: get_backlinks(name) returns, in list() order, one entry {name: title,
\* path: path} for each readable note with at least one link whose target is the
\* name, letter case apart, and nothing else; several such links in one note
\* still give one entry.
C13_BacklinksOncePerNote ==
    \A c \in Callers :
        Finished(c, "get_backlinks")
        => calls[c].ret = EntriesR(LinkingNotes(calls[c].note_name))

Upper(c) ==
    CASE c = "a" -> "A"
      [] c = "b" -> "B"
      [] c = "c" -> "C"
      [] c = "d" -> "D"
      [] c = "h" -> "H"
      [] c = "m" -> "M"
      [] c = "n" -> "N"
      [] c = "t" -> "T"
      [] c = "x" -> "X"
      [] c = "y" -> "Y"
      [] OTHER -> c

UpperStr(s) == [i \in 1..Len(s) |-> Upper(s[i])]

\* The name in lower and in upper case.
CaseVariants(name) == {LowerStr(name), UpperStr(name)}

\* C14: on one corpus, get_backlinks gives the same entries for names that
\* differ in letter case only, in the vault manager and in the batch resolver
\* (whose directory scan yields one order on one corpus).
C14_BacklinksCaseInsensitive ==
    \A c \in Callers :
        /\ Finished(c, "get_backlinks")
           => \A other \in CaseVariants(calls[c].note_name) :
                  GetBacklinks(other) = calls[c].ret
        /\ Finished(c, "resolver_get_backlinks")
           => \A other \in CaseVariants(calls[c].note_name) :
                  EntriesR(ResolverGetBacklinks(calls[c].order, other)) = calls[c].ret

C14_Witness ==
    \E c \in Callers :
        /\ Finished(c, "get_backlinks")
        /\ calls[c].note_name = <<"N">>
        /\ calls[c].ret.kind = "entries"
        /\ Len(calls[c].ret.entries) = 2

ScannedNotes ==
    {p \in Rglob(VaultPath) :
        IsFile(p) /\ ~ StartsWith(Name(p), <<".">>) /\ ~ Undecodable(files[p])}

Count(seq, x) == Cardinality({i \in 1..Len(seq) : seq[i] = x})

\* The link targets in the stored text of a file.
TargetsIn(p) == ResolverExtractWikilinks(RawText(files[p]))

\* C16: in the graph of scan_vault over notes whose lower-cased stems differ
\* pairwise, S's name stands in T's backlink list as many times as S holds
\* links whose target is T's key, letter case apart; a backlink list holds
\* nothing else; outgoing_links holds every target of the note, matched or not.
C16_BatchBacklinkCounts ==
    \A c \in Callers :
        (/\ Finished(c, "scan_vault")
         /\ \A p, q \in ScannedNotes :
                p # q => LowerStr(Stem(Name(p))) # LowerStr(Stem(Name(q))))
        => LET graph == calls[c].ret.graph
               keys == {graph[i].key : i \in 1..Len(graph)}
               EntryOf(p) == graph[CHOOSE i \in 1..Len(graph) : graph[i].key = Stem(Name(p))]
           IN  /\ keys = {Stem(Name(p)) : p \in ScannedNotes}
               /\ Len(graph) = Cardinality(ScannedNotes)
               /\ \A S, T \in ScannedNotes :
                      Count(EntryOf(T).backlinks, Stem(Name(S)))
                        = Cardinality({j \in 1..Len(TargetsIn(S)) :
                              LowerStr(TargetsIn(S)[j]) = LowerStr(Stem(Name(T)))})
               /\ \A T \in ScannedNotes : Range(EntryOf(T).backlinks) \subseteq keys
               /\ \A S \in ScannedNotes : EntryOf(S).outgoing_links = TargetsIn(S)

C16_Witness ==
    \E c \in Callers :
        /\ Finished(c, "scan_vault")
        /\ Len(calls[c].ret.graph) = 2
        /\ \E i, j \in 1..2 :
               /\ calls[c].ret.graph[i].key = <<"m">>
               /\ calls[c].ret.graph[i].backlinks = <<<<"n">>, <<"n">>>>
               /\ calls[c].ret.graph[j].key = <<"n">>
               /\ <<"x">> \in Range(calls[c].ret.graph[i].outgoing_links)

\* C17 as claimed: no two keys of the graph of scan_vault are equal when
\* compared without regard to letter case.
C17_KeysLowercased ==
    \A c \in Callers :
        Finished(c, "scan_vault")
        => LET graph == calls[c].ret.graph IN
           \A i, j \in 1..Len(graph) :
               i # j => LowerStr(graph[i].key) # LowerStr(graph[j].key)

\* C17 amended: the keys are the stems as spelled and no two keys are equal:
\* notes with the same stem share one entry, which holds the note scanned last,
\* and stems that differ in letter case only have an entry each; every link
\* resolves to at most one key, the first in scan order that is its target,
\* letter case apart.
C17_KeysAsSpelled ==
    \A c \in Callers :
        Finished(c, "scan_vault")
        => LET graph == calls[c].ret.graph
               order == calls[c].order
               scanned == SelectSeq(order, LAMBDA p : p \in ScannedNotes)
               LastOf(key) ==
                   scanned[CHOOSE i \in 1..Len(scanned) :
                              /\ Stem(Name(scanned[i])) = key
                              /\ \A j \in (i + 1)..Len(scanned) :
                                     Stem(Name(scanned[j])) # key]
               First(name) ==
                   CHOOSE i \in 1..Len(graph) :
                       /\ LowerStr(graph[i].key) = LowerStr(name)
                       /\ \A j \in 1..(i - 1) : LowerStr(graph[j].key) # LowerStr(name)
           IN  /\ \A i, j \in 1..Len(graph) : i # j => graph[i].key # graph[j].key
               /\ {graph[i].key : i \in 1..Len(graph)}
                      = {Stem(Name(p)) : p \in ScannedNotes}
               /\ \A i \in 1..Len(graph) :
                      /\ graph[i].path = Rel(ToRelative(LastOf(graph[i].key)).rel)
                      /\ graph[i].outgoing_links = TargetsIn(LastOf(graph[i].key))
               /\ \A i, t \in 1..Len(graph) :
                      Count(graph[t].backlinks, graph[i].key)
                        = Cardinality({j \in 1..Len(graph[i].outgoing_links) :
                              /\ LowerStr(graph[i].outgoing_links[j]) = LowerStr(graph[t].key)
                              /\ First(graph[i].outgoing_links[j]) = t})

C17_Witness ==
    \E c \in Callers :
        /\ Finished(c, "scan_vault")
        /\ fileSub \in ScannedNotes
        /\ fileNote \in ScannedNotes
        /\ Len(calls[c].ret.graph) = 1
        /\ calls[c].ret.graph[1].path = pSub

\* The notes of the corpus: what the listed paths read as.
CorpusNotes ==
    LET listed == ListNotes(Rel(<<>>)).paths IN
    {ReadNote(Rel(listed[i])).note :
        i \in {k \in 1..Len(listed) : ReadNote(Rel(listed[k])).kind = "note"}}

\* The number of terms that are substrings of the text.
TermsIn(terms, text) == Cardinality({i \in 1..Len(terms) : Contains(text, terms[i])})

\* C18: for every returned result, with n terms of which tm are in the
\* lower-cased title and cm in the lower-cased body, score * 3n = 2*tm + cm
\* and 0 < score <= 1; no query, the empty and the blank one included, divides
\* by zero.
C18_ScoreFormula ==
    \A c \in Callers :
        Finished(c, "search_notes")
        => LET terms == Split(LowerStr(calls[c].query)) IN
           /\ calls[c].ret # Err("ZeroDivisionError")
           /\ calls[c].ret.kind = "results"
              => \A k \in 1..Len(calls[c].ret.results) :
                     LET r == calls[c].ret.results[k]
                         tm == TermsIn(terms, LowerStr(r.note.title))
                         cm == TermsIn(terms, LowerStr(r.note.content))
                     IN  /\ r.score.den > 0
                         /\ r.score.num * 3 * Len(terms) = (2 * tm + cm) * r.score.den
                         /\ r.score.num > 0
                         /\ r.score.num <= r.score.den

C18_Witness ==
    \E c \in Callers :
        /\ Finished(c, "search_notes")
        /\ calls[c].ret.kind = "results"
        /\ \E k \in 1..Len(calls[c].ret.results) :
               LET r == calls[c].ret.results[k]
                   terms == Split(LowerStr(calls[c].query))
               IN  /\ Len(terms) = 2
                   /\ TermsIn(terms, LowerStr(r.note.title)) = 1
                   /\ TermsIn(terms, LowerStr(r.note.content)) = 0
                   /\ r.score.num * 3 = r.score.den

\* C19: a note is returned only if a term of the query is a substring of its
\* lower-cased title or body; a query of which no term occurs in any note, and
\* a query without terms, return the empty list.
C19_OnlyMatches ==
    \A c \in Callers :
        Finished(c, "search_notes")
        => LET terms == Split(LowerStr(calls[c].query))
               Hit(note) == \E i \in 1..Len(terms) :
                                \/ Contains(LowerStr(note.title), terms[i])
                                \/ Contains(LowerStr(note.content), terms[i])
           IN  /\ calls[c].ret.kind = "results"
                  => \A k \in 1..Len(calls[c].ret.results) : Hit(calls[c].ret.results[k].note)
               /\ (\A note \in CorpusNotes : ~ Hit(note)) => calls[c].ret = ResultsR(<<>>)

\* C20: search_notes(query, max_results) with max_results >= 0 returns at most
\* max_results results, in non-increasing order of score, and leaves out no
\* matching note whose score is greater than that of a returned one.
C20_TopResults ==
    \A c \in Callers :
        (Finished(c, "search_notes") /\ calls[c].ret.kind = "results")
        => LET results == calls[c].ret.results
               terms == Split(LowerStr(calls[c].query))
               ScoreOf(note) ==
                   [num |-> 2 * TermsIn(terms, LowerStr(note.title))
                              + TermsIn(terms, LowerStr(note.content)),
                    den |-> 3 * Len(terms)]
               returned == {results[k].note.path : k \in 1..Len(results)}
           IN  /\ Len(results) <= calls[c].max_results
               /\ \A k \in 1..(Len(results) - 1) :
                      ~ Greater(results[k + 1].score, results[k].score)
               /\ \A note \in CorpusNotes :
                      (note.path \notin returned /\ ScoreOf(note).num > 0)
                      => \A k \in 1..Len(results) :
                             ~ Greater(ScoreOf(note), results[k].score)

C20_Witness ==
    \E c \in Callers :
        /\ Finished(c, "search_notes")
        /\ calls[c].ret.kind = "results"
        /\ calls[c].max_results = 1
        /\ Len(calls[c].ret.results) = 1
        /\ \E note \in CorpusNotes :
               /\ note.path # calls[c].ret.results[1].note.path
               /\ Greater(calls[c].ret.results[1].score,
                          [num |-> TermsIn(Split(LowerStr(calls[c].query)),
                                           LowerStr(note.content)),
                           den |-> 3 * Len(Split(LowerStr(calls[c].query)))])
               /\ TermsIn(Split(LowerStr(calls[c].query)), LowerStr(note.content)) > 0
               /\ TermsIn(Split(LowerStr(calls[c].query)), LowerStr(note.title)) = 0

\* The notes of an outcome with their scores, in order; an error is itself.
Ranking(ret) ==
    IF ret.kind = "results"
    THEN [k \in 1..Len(ret.results) |->
             [note |-> ret.results[k].note, score |-> ret.results[k].score]]
    ELSE ret

\* C21: on one corpus, search_notes gives the same notes in the same order with
\* the same scores for queries that differ in letter case only.
C21_SearchCaseInsensitive ==
    \A c \in Callers :
        Finished(c, "search_notes")
        => \A other \in CaseVariants(calls[c].query) :
               Ranking(SearchNotes(other, calls[c].max_results)) = Ranking(calls[c].ret)

C21_Witness ==
    \E c \in Callers :
        /\ Finished(c, "search_notes")
        /\ calls[c].query = <<"X">>
        /\ calls[c].ret.kind = "results"
        /\ Len(calls[c].ret.results) > 0

\* C22: when two writes to one path have both returned their Note, the note
\* stored at the path is the one or the other: the content and metadata of the
\* first, or the content and metadata of the second.
C22_LastWriterWins ==
    (/\ \A c \in Callers : Finished(c, "write") /\ calls[c].ret.kind = "note"
     /\ calls[1].abs = calls[2].abs)
    => LET stored == ReadNote(calls[1].path) IN
       /\ stored.kind = "note"
       /\ \E c \in Callers :
              /\ stored.note.content = calls[c].content
              /\ stored.note.frontmatter = NoteMeta(calls[c].metadata)

\* The stored files that list() is to name, and those of them that decode.
StoredPaths ==
    {p \in DOMAIN files : /\ IsUnder(p, VaultPath)
                          /\ EndsWith(Name(p), mdSuffix)
                          /\ ~ StartsWith(Name(p), <<".">>)}

StoredNotes == {p \in StoredPaths : ~ Undecodable(files[p]) /\ Loads(files[p]).ok}

\* C23: whatever was written and deleted before, a finished call tells what is
\* stored now: list() names every stored note file and nothing that is gone; a
\* read gives absent for a path without a file and otherwise the stored body; a
\* search returns stored notes with their stored bodies and, unless it is cut
\* off at max_results, every stored note whose body holds a term; get_backlinks
\* returns exactly the stored notes whose body links to the name; every target
\* of get_outgoing_links exists.
C23_ReadAfterWriteFresh ==
    \A c \in Callers :
        LET ret == calls[c].ret
            RelOf(p) == Rel(ToRelative(p).rel)
            Body(p) == Loads(files[p]).content
            Here(rp) == (VaultPath \o rp.segs) \in DOMAIN files \cup dirs
        IN
        /\ Finished(c, "list")
           => /\ ret.kind = "list"
              /\ \A p \in StoredPaths : ToRelative(p).rel \in Range(ret.paths)
              /\ \A k \in 1..Len(ret.paths) : Here(Rel(ret.paths[k]))
        /\ Finished(c, "read")
           => /\ calls[c].abs \notin DOMAIN files => ret = NoneR
              /\ ret.kind = "note"
                 => /\ calls[c].abs \in StoredNotes
                    /\ ret.note.content = Body(calls[c].abs)
        /\ Finished(c, "search_notes")
           => LET terms == Split(LowerStr(calls[c].query)) IN
              /\ ret.kind = "results"
              /\ \A k \in 1..Len(ret.results) :
                     \E p \in StoredNotes : /\ RelOf(p) = ret.results[k].note.path
                                            /\ Body(p) = ret.results[k].note.content
              /\ Len(ret.results) < calls[c].max_results
                 => \A p \in StoredNotes :
                        TermsIn(terms, LowerStr(Body(p))) > 0
                        => \E k \in 1..Len(ret.results) :
                               ret.results[k].note.path = RelOf(p)
        /\ Finished(c, "get_backlinks")
           => /\ ret.kind = "entries"
              /\ {ret.entries[k].path : k \in 1..Len(ret.entries)}
                 = {RelOf(p) : p \in {q \in StoredNotes :
                        \E link \in Range(ExtractWikilinks(Body(q))) :
                            LowerStr(link.target) = LowerStr(calls[c].note_name)}}
        /\ (Finished(c, "get_outgoing_links") /\ ret.kind = "entries")
           => \A k \in 1..Len(ret.entries) : Here(ret.entries[k].path)

\* C24: a request without a signature header is rejected with 401; with a
\* configured secret so is every request whose signature is not "sha256=" and
\* the HMAC-SHA256 of the body under the secret, whatever the body, so before
\* it is parsed; no handler runs for a request that is not answered with 200;
\* a verified request whose payload is a JSON object (its repository an object
\* or missing) and whose event has no handler is answered with status ok and
\* is not processed.
C24_WebhookVerified ==
    \A c \in Callers :
        Finished(c, "github_webhook")
        => LET request == calls[c].request
               ret == calls[c].ret
               payload == RequestJson(request.body)
           IN  /\ request.signature = NoneV => ret.status_code = 401
               /\ (/\ request.secret # ""
                   /\ request.signature
                          # StrV(ExpectedSignature(request.secret, request.body)))
                  => ret.status_code = 401
               /\ ret.status_code # 200 => ret.handler = "none"
               /\ (/\ ret.status_code # 401
                   /\ payload.ok
                   /\ payload.object
                   /\ payload.repository # "null"
                   /\ request.event \notin {StrV(e) : e \in event_handlers})
                  => /\ ret.status_code = 200
                     /\ ret.status = "ok"
                     /\ ret.handler = "none"
                     /\ ~ ret.processed

\* The 0-based index of the first occurrence of the term in the text, which
\* holds it.
FirstIndex(text, term) ==
    CHOOSE i \in 0..(Len(text) - Len(term)) :
        /\ SubSeq(text, i + 1, i + Len(term)) = term
        /\ \A j \in 0..(i - 1) : SubSeq(text, j + 1, j + Len(term)) # term

\* C25: the excerpts are those of the first three terms, in term order, that
\* occur in the lower-cased body; the excerpt of a term whose first occurrence
\* is at idx is the body as written from max(0, idx - 100) to
\* min(len, idx + len(term) + 100), behind "..." iff that window does not start
\* at 0 and before "..." iff it does not reach the end.
C25_Excerpts ==
    \A c \in Callers :
        Finished(c, "extract_excerpts")
        => LET content == calls[c].content
               terms == calls[c].terms
               excerpts == calls[c].ret.excerpts
               occurring == SelectSeq(terms, LAMBDA t : Contains(LowerStr(content), t))
               Window(term) ==
                   LET idx == FirstIndex(LowerStr(content), term)
                       from == IF idx > 100 THEN idx - 100 ELSE 0
                       to == IF idx + Len(term) + 100 < Len(content)
                             THEN idx + Len(term) + 100 ELSE Len(content)
                   IN  (IF from # 0 THEN <<".", ".", ".">> ELSE <<>>)
                           \o [k \in 1..(to - from) |-> content[from + k]]
                           \o (IF to # Len(content) THEN <<".", ".", ".">> ELSE <<>>)
           IN  /\ Len(excerpts) = IF Len(occurring) < 3 THEN Len(occurring) ELSE 3
               /\ \A k \in 1..Len(excerpts) : excerpts[k] = Window(occurring[k])

C25_Witness ==
    \E c \in Callers :
        /\ Finished(c, "extract_excerpts")
        /\ calls[c].terms = <<<<"z">>, <<"x">>, <<"y">>, <<"x">>>>
        /\ Len(calls[c].content) = 2 * context_chars + 5
        /\ Len(calls[c].ret.excerpts) = 3
        /\ Len(calls[c].ret.excerpts[1]) = 2 * context_chars + 1 + 3 + 3

\* C26: whatever the other caller's writes and deletes of the same path do in
\* between, a write of content A with metadata A' on a valid path does not end
\* with InternalConsistency, and the Note it returns holds A and A'.
C26_WriteRereadAtomic ==
    \A c \in Callers :
        (Finished(c, "write") /\ ValidatePath(calls[c].path).ok)
        => /\ calls[c].ret # Err("RuntimeError")
           /\ calls[c].ret.kind = "note"
              => /\ calls[c].ret.note.content = calls[c].content
                 /\ calls[c].ret.note.frontmatter = NoteMeta(calls[c].metadata)

\* C27: a delete of a path that passes validation ends with a boolean: of a
\* directory (the vault root for the empty path) it removes nothing and raises
\* nothing.  A delete runs in one step of the event loop, so of two concurrent
\* deletes of one existing file one runs first: it returns true and leaves
\* nothing at the path, and the other, finding nothing there, returns false.
C27_DeleteTotal ==
    /\ [](\A c \in Callers :
            (Finished(c, "delete") /\ ValidatePath(calls[c].path).ok)
            => calls[c].ret.kind = "bool")
    /\ [][\A c \in Callers :
             (/\ calls[c].pc = "idle"
              /\ calls'[c].op = "delete"
              /\ ValidatePath(calls'[c].path).ok)
             => LET target == Resolved(calls'[c].path)
                    r == calls'[c].ret
                IN  /\ IsDir(target) => (files' = files /\ dirs' = dirs)
                    /\ r = BoolR(TRUE)
                       => (IsFile(target) /\ target \notin DOMAIN files' \cup dirs')
                    /\ ~ Exists(target) => r = BoolR(FALSE)]_vars

\* C28: on a corpus of decodable notes without metadata blocks whose lower-cased
\* stems differ pairwise, VaultManager.get_backlinks(name) names the same set of
\* source paths as BacklinkResolver.get_backlinks(name), and
\* VaultManager.get_outgoing_links(path) of a note the same set of target paths
\* as BacklinkResolver.get_outgoing_links(stem), whatever the order of the
\* resolver's scan.
C28_StrategiesAgree ==
    LET PathsOf(entries) == {entries[i].path : i \in 1..Len(entries)}
        Orders == Perms(Rglob(VaultPath))
    IN
    \A c \in Callers :
        (/\ \A p \in StoredPaths :
               /\ ~ Undecodable(files[p])
               /\ \A i \in 1..Len(files[p]) : files[p][i].t = "ch"
         /\ \A p, q \in StoredPaths :
               p # q => LowerStr(Stem(Name(p))) # LowerStr(Stem(Name(q))))
        => /\ Finished(c, "get_backlinks")
              => /\ calls[c].ret.kind = "entries"
                 /\ \A order \in Orders :
                        PathsOf(calls[c].ret.entries)
                          = PathsOf(ResolverGetBacklinks(order, calls[c].note_name))
           /\ (Finished(c, "get_outgoing_links") /\ Resolved(calls[c].path) \in StoredPaths)
              => /\ calls[c].ret.kind = "entries"
                 /\ \A order \in Orders :
                        PathsOf(calls[c].ret.entries)
                          = PathsOf(ResolverGetOutgoingLinks(
                                        order, Stem(Name(Resolved(calls[c].path)))))

\* C29: no step of a read, list, search, get_backlinks, get_outgoing_links or
\* extract_wikilinks creates, changes or removes a stored file; a step of
\* write(p, ...) or delete(p) leaves every file other than p in place with its
\* text, and a step of a delete leaves the set of directories as it was.
C29_Frame ==
    [][\A c \in Callers :
          calls'[c] # calls[c]
          => LET op == calls'[c].op
                 v == ValidatePath(calls'[c].path)
             IN  /\ op \in {"read", "list", "search_notes", "get_backlinks",
                            "get_outgoing_links", "extract_wikilinks"}
                    => files' = files
                 /\ op \in {"write", "delete"}
                    => IF ~ v.ok THEN files' = files
                       ELSE \A p \in (DOMAIN files \cup DOMAIN files') \ {v.path} :
                                /\ p \in DOMAIN files
                                /\ p \in DOMAIN files'
                                /\ files'[p] = files[p]
                 /\ op = "delete" => dirs' = dirs]_vars

C29_Witness ==
    \E c \in Callers :
        /\ Finished(c, "delete")
        /\ calls[c].ret = BoolR(TRUE)
        /\ \E p \in DOMAIN files : p # calls[c].abs /\ files[p] # <<>>
        /\ \E d \in dirs : IsUnder(d, VaultPath) /\ d # VaultPath

\* C30: every Link of extract_wikilinks has a target that is not empty, and its
\* heading and its alias are each absent or not empty, whatever the text, a
\* part of the markup that holds only whitespace included.
C30_LinkPartsNonEmpty ==
    \A c \in Callers :
        Finished(c, "extract_wikilinks")
        => \A k \in 1..Len(calls[c].ret.links) :
               LET link == calls[c].ret.links[k] IN
               /\ link.target # <<>>
               /\ link.heading = NoneV \/ (link.heading.kind = "str" /\ link.heading.v # <<>>)
               /\ link.alias = NoneV \/ (link.alias.kind = "str" /\ link.alias.v # <<>>)

====
